---------------------------- MODULE Spec2Model ----------------------------
(***************************************************************************)
(* A model of the time-series pipeline of src/src/KalshiMarketPriceChart   *)
(* .tsx: the binary searches over sorted timestamps, the candlestick       *)
(* normalizer, the time-window resolver, the clipping of overlay series to *)
(* the primary series' range, and the chart component that combines them.  *)
(*                                                                         *)
(* Conventions.                                                            *)
(*  - JavaScript arrays are 0-based; sequences here are 1-based.  Indices  *)
(*    returned by the modelled functions are the 0-based indices of the    *)
(*    code, and At(a, i) reads a[i] of the code.                           *)
(*  - A value of type `T | null` is a sequence of length at most one:      *)
(*    Null is the empty sequence and Some(v) is <<v>>.                     *)
(*  - Time is counted in ticks, TicksPerSecond to the second, so that      *)
(*    365 days fits the model checker's integers.  One second (1000 ms in  *)
(*    the code) is Second ticks.                                           *)
(*  - In the normalizer a JavaScript number is counted in ten-thousandths, *)
(*    so that a price in dollars ("0.5000" is 5000) and one in cents       *)
(*    (25 / 100 is 2500) are exact integers; NaN is a value of its own.    *)
(***************************************************************************)
EXTENDS Integers, Sequences, FiniteSets, TLC

VARIABLES
    \* A call of one of the pure functions.
    pc,         \* the function most recently applied to `input` ("ready": none yet)
    input,      \* the arguments of the call under study
    output,     \* what the call returned
    \* The state of the ChartContent component.
    query,                  \* query.data of the primary series (Null: undefined)
    seriesQueries,          \* the data of each fixed overlay query (Null: undefined)
    show,                   \* showProjection, showCombo, ... (one flag per fixed overlay)
    customCompareMarkets,   \* the user-added comparison overlays
    customCompareQueries,   \* the data of each custom-compare query, by ticker
    compareTickerInput,     \* the text of the "add ticker" input
    compareInputError,      \* the message under the "add ticker" input
    chartData,              \* the overlay datasets handed to the chart by the last render
    steps,                  \* events handled so far
    \* A fetcher running as an asynchronous task.
    requests,               \* the network requests the fetch has issued, in order
    candleResults,          \* Promise.all of the seat projection: each sub-fetch's state
    \* The queries of the component as the query client runs them.
    queryState,             \* per series: status, failureCount, fetch function runs, data
    errorMessage,           \* ChartErrorBoundary's state.errorMessage (Null: none)
    \* The view state of ChartContent and the query cache behind it.
    props,                  \* marketId and the projection's event ticker, as passed in
    selectedTimeframe,      \* the `timeframe` state
    customRangeApplied,     \* the applied custom range (Null: none)
    isDragging,             \* a drag selection is under way
    dragSelection,          \* { startIndex, endIndex } of the drag (Null: none)
    queryCache              \* per series and query key: data, fetch in flight, error

callVars == <<pc, input, output>>

chartVars == <<query, seriesQueries, show, customCompareMarkets, customCompareQueries,
               compareTickerInput, compareInputError, chartData, steps>>

fetchVars == <<requests, candleResults>>

queryVars == <<queryState, errorMessage>>

viewVars == <<props, selectedTimeframe, customRangeApplied, isDragging, dragSelection, queryCache>>

vars == <<pc, input, output, query, seriesQueries, show, customCompareMarkets,
          customCompareQueries, compareTickerInput, compareInputError, chartData, steps,
          requests, candleResults, queryState, errorMessage,
          props, selectedTimeframe, customRangeApplied, isDragging, dragSelection, queryCache>>

---------------------------------------------------------------------------
(* Bounds of the model.                                                    *)

MaxLen == 3             \* longest candle / point sequence drawn as an input
MaxTs == 5              \* timestamps are drawn from 0..MaxTs
TicksPerSecond == 2     \* resolution of the model's clock
MaxClipTs == 3          \* clipped points and clip ranges lie in 0..MaxClipTs
MaxSticks == 3          \* longest provider candlestick list drawn as an input
MaxChartTs == 3         \* the chart's candles and overlay points lie in 0..MaxChartTs
MaxSteps == 4           \* events (user actions, responses) handled by the chart

---------------------------------------------------------------------------
(* Generic helpers.                                                        *)

Null == <<>>
Some(v) == <<v>>
IsNull(o) == o = <<>>
Get(o) == o[1]

At(a, i) == a[i + 1]

Abs(x) == IF x < 0 THEN -x ELSE x

Range(s) == {s[i] : i \in DOMAIN s}

SeqsUpTo(S, n) == UNION {[1..k -> S] : k \in 0..n}

IsAscending(ts) == \A i \in 1..(Len(ts) - 1) : ts[i] <= ts[i + 1]

IsStrictlyAscending(ts) == \A i \in 1..(Len(ts) - 1) : ts[i] < ts[i + 1]

Timestamps(cs) == [i \in DOMAIN cs |-> cs[i].timestamp]

---------------------------------------------------------------------------
(* The component as mounted, and no call made.                             *)

ChartSeries == {"projection", "combo", "controls", "trumpApproval", "sp500", "unemployment"}

\* useState initial values (lines 915-923); no query has data yet, and the
\* first render hands the chart no overlay dataset.
ChartMounted ==
    /\ query = Null
    /\ seriesQueries = [s \in ChartSeries |-> Null]
    /\ show = [s \in ChartSeries |-> FALSE]
    /\ customCompareMarkets = <<>>
    /\ customCompareQueries = <<>>
    /\ compareTickerInput = <<>>
    /\ compareInputError = Null
    /\ chartData = <<>>
    /\ steps = 0

NoCall ==
    /\ pc = "ready"
    /\ input = Null
    /\ output = Null

\* No fetch under way: nothing requested, no sub-fetch started.
NoFetch ==
    /\ requests = <<>>
    /\ candleResults = <<>>

\* The query client before any query is observed, and the error boundary
\* as constructed (line 291).
NoQueries ==
    /\ queryState = <<>>
    /\ errorMessage = Null

\* useState initial values of the view (lines 909-914) under props naming
\* a market and no projection event; the query cache is not looked at.
ViewMounted ==
    /\ props = [marketId |-> "MKT", projectionEventTicker |-> Null]
    /\ selectedTimeframe = "7D"
    /\ customRangeApplied = Null
    /\ isDragging = FALSE
    /\ dragSelection = Null
    /\ queryCache = <<>>

---------------------------------------------------------------------------
(* Binary search utilities.                                                *)

\* The while loop shared by the two nearest-* searches: the index of an
\* exact match, or the insertion point lo when the loop runs out.
RECURSIVE nearestLoop(_, _, _, _)
nearestLoop(timestamps, target, lo, hi) ==
    IF lo > hi THEN [found |-> FALSE, at |-> lo]
    ELSE LET mid == (lo + hi) \div 2
             value == At(timestamps, mid)
         IN  IF value = target THEN [found |-> TRUE, at |-> mid]
             ELSE IF value < target
                  THEN nearestLoop(timestamps, target, mid + 1, hi)
                  ELSE nearestLoop(timestamps, target, lo, mid - 1)

nearestIndexByTimestamp_LaterOnTie(timestamps, target) ==
    IF Len(timestamps) = 0 THEN 0
    ELSE LET r == nearestLoop(timestamps, target, 0, Len(timestamps) - 1)
             lo == r.at
         IN  IF r.found THEN r.at
             ELSE IF lo <= 0 THEN 0
             ELSE IF lo >= Len(timestamps) THEN Len(timestamps) - 1
             ELSE IF Abs(At(timestamps, lo) - target)
                       <= Abs(At(timestamps, lo - 1) - target)
                  THEN lo ELSE lo - 1

nearestIndexByTimestamp_NoCompare(timestamps, target) ==
    IF Len(timestamps) = 0 THEN 0
    ELSE LET r == nearestLoop(timestamps, target, 0, Len(timestamps) - 1)
             lo == r.at
         IN  IF r.found THEN r.at
             ELSE IF lo <= 0 THEN 0
             ELSE IF lo >= Len(timestamps) THEN Len(timestamps) - 1
             ELSE lo

nearestIndexByTimestamp(timestamps, target) ==
    IF Len(timestamps) = 0 THEN 0
    ELSE LET r == nearestLoop(timestamps, target, 0, Len(timestamps) - 1)
             lo == r.at
         IN  IF r.found THEN r.at
             ELSE IF lo <= 0 THEN 0
             ELSE IF lo >= Len(timestamps) THEN Len(timestamps) - 1
             ELSE IF Abs(At(timestamps, lo) - target)
                       < Abs(At(timestamps, lo - 1) - target)
                  THEN lo ELSE lo - 1

nearestPointByTimestamp(points, targetTs) ==
    IF Len(points) = 0 THEN Null
    ELSE LET r == nearestLoop(Timestamps(points), targetTs, 0, Len(points) - 1)
             lo == r.at
         IN  IF r.found THEN Some(At(points, r.at))
             ELSE IF lo <= 0 THEN Some(At(points, 0))
             ELSE IF lo >= Len(points) THEN Some(At(points, Len(points) - 1))
             ELSE IF Abs(At(points, lo).timestamp - targetTs)
                       < Abs(At(points, lo - 1).timestamp - targetTs)
                  THEN Some(At(points, lo)) ELSE Some(At(points, lo - 1))

\* The loop of findCloseAtOrBefore: the last mid whose timestamp was <= targetTs.
RECURSIVE closeLoop(_, _, _, _, _)
closeLoop(candles, targetTs, lo, hi, best) ==
    IF lo > hi THEN best
    ELSE LET mid == (lo + hi) \div 2
         IN  IF At(candles, mid).timestamp <= targetTs
             THEN closeLoop(candles, targetTs, mid + 1, hi, mid)
             ELSE closeLoop(candles, targetTs, lo, mid - 1, best)

RECURSIVE closeLoop_StrictlyBefore(_, _, _, _, _)
closeLoop_StrictlyBefore(candles, targetTs, lo, hi, best) ==
    IF lo > hi THEN best
    ELSE LET mid == (lo + hi) \div 2
         IN  IF At(candles, mid).timestamp < targetTs
             THEN closeLoop_StrictlyBefore(candles, targetTs, mid + 1, hi, mid)
             ELSE closeLoop_StrictlyBefore(candles, targetTs, lo, mid - 1, best)

findCloseAtOrBefore_StrictlyBefore(candles, targetTs) ==
    IF Len(candles) = 0 THEN Null
    ELSE LET best == closeLoop_StrictlyBefore(candles, targetTs, 0, Len(candles) - 1, -1)
         IN  IF best < 0 THEN Null ELSE Some(At(candles, best).close)

findCloseAtOrBefore(candles, targetTs) ==
    IF Len(candles) = 0 THEN Null
    ELSE LET best == closeLoop(candles, targetTs, 0, Len(candles) - 1, -1)
         IN  IF best < 0 THEN Null ELSE Some(At(candles, best).close)

---------------------------------------------------------------------------
(* Inputs of the search utilities: candle sequences ascending by           *)
(* timestamp (equal neighbours allowed), and a target that may fall        *)
(* before, between, on or after the timestamps.                            *)

ClosePrices == {1, 2}

SearchCandle == [timestamp : 0..MaxTs, close : ClosePrices]

SortedCandleSeqs(maxLen) ==
    {cs \in SeqsUpTo(SearchCandle, maxLen) : IsAscending(Timestamps(cs))}

SearchTargets == (-1)..(MaxTs + 1)

InitSearch ==
    /\ pc = "ready"
    /\ input \in [candles : SortedCandleSeqs(MaxLen), target : SearchTargets]
    /\ output = Null
    /\ ChartMounted
    /\ NoFetch
    /\ NoQueries
    /\ ViewMounted

CallNearestIndex ==
    /\ pc = "ready"
    /\ pc' = "nearestIndexByTimestamp"
    /\ output' = nearestIndexByTimestamp(Timestamps(input.candles), input.target)
    /\ UNCHANGED <<input, chartVars, fetchVars, queryVars, viewVars>>

CallNearestPoint ==
    /\ pc = "ready"
    /\ pc' = "nearestPointByTimestamp"
    /\ output' = nearestPointByTimestamp(input.candles, input.target)
    /\ UNCHANGED <<input, chartVars, fetchVars, queryVars, viewVars>>

CallFindClose ==
    /\ pc = "ready"
    /\ pc' = "findCloseAtOrBefore"
    /\ output' = findCloseAtOrBefore(input.candles, input.target)
    /\ UNCHANGED <<input, chartVars, fetchVars, queryVars, viewVars>>

NextSearch == CallNearestIndex \/ CallNearestPoint \/ CallFindClose

SpecSearch == InitSearch /\ [][NextSearch]_vars

---------------------------------------------------------------------------
(* Properties of the binary search utilities (checked under SpecSearch).   *)

InTs == Timestamps(input.candles)

InLen == Len(input.candles)

Dist(i) == Abs(At(InTs, i) - input.target)

IsClosestIndex(i) ==
    /\ i \in 0..(InLen - 1)
    /\ \A j \in 0..(InLen - 1) : ~(Dist(j) < Dist(i))

\* The target lies exactly half way between two neighbouring timestamps
\* i and i+1 of a strictly increasing sequence.
IsTieAt(i) ==
    /\ IsStrictlyAscending(InTs)
    /\ i \in 0..(InLen - 2)
    /\ At(InTs, i) < input.target
    /\ input.target < At(InTs, i + 1)
    /\ input.target - At(InTs, i) = At(InTs, i + 1) - input.target

\* C1: for a non-empty ascending sequence and any target,
\* nearestIndexByTimestamp returns an index in range that no other index
\* beats in absolute distance to the target, and nearestPointByTimestamp
\* returns the point at such an index.
C1_NearestIsClosest ==
    /\ (pc = "nearestIndexByTimestamp" /\ InLen > 0) => IsClosestIndex(output)
    /\ (pc = "nearestPointByTimestamp" /\ InLen > 0) =>
          /\ ~IsNull(output)
          /\ \E i \in 0..(InLen - 1) :
                IsClosestIndex(i) /\ Get(output) = At(input.candles, i)

\* A search whose target is strictly inside the sequence, matches no
\* timestamp, and whose answer is not the first element.
C1_Witness ==
    /\ pc = "nearestIndexByTimestamp"
    /\ InLen >= 3
    /\ IsStrictlyAscending(InTs)
    /\ At(InTs, 0) < input.target
    /\ input.target < At(InTs, InLen - 1)
    /\ input.target \notin Range(InTs)
    /\ output = 1

\* C2 as stated: on an exact distance tie between neighbours i and i+1 the
\* later index i+1 is returned (and the point at i+1).
C2_LaterIndexWinsTie ==
    \A i \in 0..(InLen - 2) : IsTieAt(i) =>
        /\ pc = "nearestIndexByTimestamp" => output = i + 1
        /\ pc = "nearestPointByTimestamp" => output = Some(At(input.candles, i + 1))

\* C2 amended: on an exact distance tie between neighbours i and i+1 the
\* earlier index i is returned by nearestIndexByTimestamp, and the point at
\* i by nearestPointByTimestamp: the later element wins only when it is
\* strictly closer.
C2_EarlierIndexWinsTie ==
    \A i \in 0..(InLen - 2) : IsTieAt(i) =>
        /\ pc = "nearestIndexByTimestamp" => output = i
        /\ pc = "nearestPointByTimestamp" => output = Some(At(input.candles, i))

\* A tie between the second and third elements, answered by nearestPointByTimestamp.
C2_Witness ==
    /\ pc = "nearestPointByTimestamp"
    /\ InLen >= 3
    /\ IsTieAt(1)
    /\ output = Some(At(input.candles, 1))

\* C3: findCloseAtOrBefore returns null exactly when no candle has a
\* timestamp <= target, and otherwise the close of a candle whose timestamp
\* is the greatest one <= target.
C3_CloseAtOrBefore ==
    pc = "findCloseAtOrBefore" =>
        LET eligible == {i \in 0..(InLen - 1) : At(InTs, i) <= input.target}
        IN  /\ IsNull(output) <=> eligible = {}
            /\ eligible # {} =>
                  \E i \in eligible :
                      /\ \A j \in eligible : At(InTs, j) <= At(InTs, i)
                      /\ Get(output) = At(input.candles, i).close

\* A lookup with candles on both sides of the target, the closes of which differ.
C3_Witness ==
    /\ pc = "findCloseAtOrBefore"
    /\ InLen >= 3
    /\ At(InTs, 1) <= input.target
    /\ input.target < At(InTs, 2)
    /\ At(input.candles, 1).close # At(input.candles, 2).close
    /\ At(input.candles, 1).close # At(input.candles, 0).close
    /\ output = Some(At(input.candles, 1).close)

---------------------------------------------------------------------------
(* Alignment / clipping layer.                                             *)

clipPointsToRange_ExclusiveEnd(points, range) ==
    IF IsNull(range) THEN points
    ELSE LET keep(p) == /\ p.timestamp >= Get(range).startMs
                        /\ p.timestamp < Get(range).endMs
         IN  SelectSeq(points, keep)

\* Array.prototype.filter keeps, in order, the elements that pass the test.
clipPointsToRange(points, range) ==
    IF IsNull(range) THEN points
    ELSE LET keep(p) == /\ p.timestamp >= Get(range).startMs
                        /\ p.timestamp <= Get(range).endMs
         IN  SelectSeq(points, keep)

\* Inputs: points in any order, equal timestamps and equal points included;
\* a range that may be absent, empty (start > end) or a single instant.
ClipPoint == [timestamp : 0..MaxClipTs, value : ClosePrices]

ClipRange == [startMs : 0..MaxClipTs, endMs : 0..MaxClipTs]

InitClip ==
    /\ pc = "ready"
    /\ input \in [points : SeqsUpTo(ClipPoint, MaxLen),
                  range : {Null} \cup {Some(r) : r \in ClipRange}]
    /\ output = Null
    /\ ChartMounted
    /\ NoFetch
    /\ NoQueries
    /\ ViewMounted

CallClip ==
    /\ pc = "ready"
    /\ pc' = "clipPointsToRange"
    /\ output' = clipPointsToRange(input.points, input.range)
    /\ UNCHANGED <<input, chartVars, fetchVars, queryVars, viewVars>>

NextClip == CallClip

SpecClip == InitClip /\ [][NextClip]_vars

\* C4: clipPointsToRange(points, null) is the input unchanged; with a range
\* it is exactly the points with startMs <= timestamp <= endMs, both ends
\* inclusive, in their original order, none added, altered or duplicated:
\* the k-th output is the k-th input point inside the range.
C4_ClipIsInclusiveSubsequence ==
    pc = "clipPointsToRange" =>
        IF IsNull(input.range) THEN output = input.points
        ELSE LET r == Get(input.range)
                 inside == {i \in 1..Len(input.points) :
                               /\ r.startMs <= input.points[i].timestamp
                               /\ input.points[i].timestamp <= r.endMs}
             IN  /\ Len(output) = Cardinality(inside)
                 /\ \E f \in [1..Len(output) -> inside] :
                       /\ \A a, b \in 1..Len(output) : a < b => f[a] < f[b]
                       /\ \A k \in 1..Len(output) : output[k] = input.points[f[k]]

\* A clip that drops a point before the range and keeps one on each end of it.
C4_Witness ==
    /\ pc = "clipPointsToRange"
    /\ ~IsNull(input.range)
    /\ Len(input.points) = 3
    /\ input.points[1].timestamp < Get(input.range).startMs
    /\ input.points[2].timestamp = Get(input.range).endMs
    /\ input.points[3].timestamp = Get(input.range).startMs
    /\ Get(input.range).startMs < Get(input.range).endMs
    /\ output = <<input.points[2], input.points[3]>>

---------------------------------------------------------------------------
(* Time-window resolver.                                                   *)

Second == TicksPerSecond        \* 1000 (ms) in the code
Minute == 60 * Second
Hour == 60 * Minute
Day == 24 * Hour

Timeframes == {"1D", "7D", "30D", "ALL", "CUSTOM"}

TIMEFRAME_CONFIG ==
    [tf \in Timeframes |->
        CASE tf = "1D"     -> [points |-> 50, startMs |-> Some(24 * 60 * 60 * Second),
                               periodInterval |-> 60]
          [] tf = "7D"     -> [points |-> 100, startMs |-> Some(7 * 24 * 60 * 60 * Second),
                               periodInterval |-> 60]
          [] tf = "30D"    -> [points |-> 150, startMs |-> Some(30 * 24 * 60 * 60 * Second),
                               periodInterval |-> 1440]
          [] tf = "ALL"    -> [points |-> 200, startMs |-> Some(365 * 24 * 60 * 60 * Second),
                               periodInterval |-> 1440]
          [] tf = "CUSTOM" -> [points |-> 250, startMs |-> Null,
                               periodInterval |-> 60]]

\* a ?? b
OrElse(a, b) == IF IsNull(a) THEN b ELSE Get(a)

Max(a, b) == IF a >= b THEN a ELSE b

Min(a, b) == IF a <= b THEN a ELSE b

inferCustomPeriodInterval_ExclusiveBounds(startMs, endMs) ==
    LET span == Max(0, endMs - startMs)
    IN  IF span < 36 * 60 * 60 * Second THEN 1
        ELSE IF span < 21 * 24 * 60 * 60 * Second THEN 60
        ELSE 1440

inferCustomPeriodInterval(startMs, endMs) ==
    LET span == Max(0, endMs - startMs)
    IN  IF span <= 36 * 60 * 60 * Second THEN 1
        ELSE IF span <= 21 * 24 * 60 * 60 * Second THEN 60
        ELSE 1440

getTimeWindow_AllUsesLookback(timeframe, customRange, now) ==
    IF timeframe = "CUSTOM" /\ ~IsNull(customRange) THEN Get(customRange)
    ELSE LET cfg == TIMEFRAME_CONFIG[timeframe]
         IN  [startMs |-> now - OrElse(cfg.startMs, 365 * 24 * 60 * 60 * Second),
              endMs |-> now]

\* `now` is the value Date.now() returns inside the call.
getTimeWindow(timeframe, customRange, now) ==
    IF timeframe = "CUSTOM" /\ ~IsNull(customRange) THEN Get(customRange)
    ELSE IF timeframe = "ALL" THEN [startMs |-> 0, endMs |-> now]
    ELSE LET cfg == TIMEFRAME_CONFIG[timeframe]
         IN  [startMs |-> now - OrElse(cfg.startMs, 365 * 24 * 60 * 60 * Second),
              endMs |-> now]

\* Inputs: instants on, just below and just above the two span thresholds
\* (36 hours and 21 days), ranges in either order, and a clock that is
\* later than every lookback or earlier than all of them.
InstantInputs == {0, 1, 36 * Hour, 36 * Hour + 1, 21 * Day + 1, 21 * Day + 2}

RangeInputs == [startMs : InstantInputs, endMs : InstantInputs]

NowInputs == {10, 400 * Day, 400 * Day + 1}

InitWindow ==
    /\ pc = "ready"
    /\ input \in [timeframe : Timeframes,
                  customRange : {Null} \cup {Some(r) : r \in RangeInputs},
                  now : NowInputs]
    /\ output = Null
    /\ ChartMounted
    /\ NoFetch
    /\ NoQueries
    /\ ViewMounted

CallGetTimeWindow ==
    /\ pc = "ready"
    /\ pc' = "getTimeWindow"
    /\ output' = getTimeWindow(input.timeframe, input.customRange, input.now)
    /\ UNCHANGED <<input, chartVars, fetchVars, queryVars, viewVars>>

CallInferCustomPeriodInterval ==
    /\ pc = "ready"
    /\ ~IsNull(input.customRange)
    /\ pc' = "inferCustomPeriodInterval"
    /\ output' = inferCustomPeriodInterval(Get(input.customRange).startMs,
                                           Get(input.customRange).endMs)
    /\ UNCHANGED <<input, chartVars, fetchVars, queryVars, viewVars>>

NextWindow == CallGetTimeWindow \/ CallInferCustomPeriodInterval

SpecWindow == InitWindow /\ [][NextWindow]_vars

\* C9: getTimeWindow returns the custom range verbatim for CUSTOM with a
\* range; {0, now} for ALL whatever range is passed; and for 1D, 7D and 30D
\* {now - lookback, now} with lookbacks of 1, 7 and 30 days, whatever range
\* is passed.
C9_WindowByTimeframe ==
    pc = "getTimeWindow" =>
        /\ (input.timeframe = "CUSTOM" /\ ~IsNull(input.customRange)) =>
              output = Get(input.customRange)
        /\ input.timeframe = "ALL" => output = [startMs |-> 0, endMs |-> input.now]
        /\ input.timeframe = "1D" =>
              output = [startMs |-> input.now - Day, endMs |-> input.now]
        /\ input.timeframe = "7D" =>
              output = [startMs |-> input.now - 7 * Day, endMs |-> input.now]
        /\ input.timeframe = "30D" =>
              output = [startMs |-> input.now - 30 * Day, endMs |-> input.now]

\* ALL resolved while a custom range is passed along.
C9_Witness ==
    /\ pc = "getTimeWindow"
    /\ input.timeframe = "ALL"
    /\ ~IsNull(input.customRange)
    /\ input.now > 365 * Day
    /\ output = [startMs |-> 0, endMs |-> input.now]

\* C10: inferCustomPeriodInterval is 1 for a span (end - start) of at most
\* 36 hours, negative spans included, 60 for a span above 36 hours and at
\* most 21 days, 1440 above that; it never decreases as the span grows.
C10_IntervalBySpan ==
    pc = "inferCustomPeriodInterval" =>
        LET span == Get(input.customRange).endMs - Get(input.customRange).startMs
        IN  /\ span <= 36 * Hour => output = 1
            /\ (span > 36 * Hour /\ span <= 21 * Day) => output = 60
            /\ span > 21 * Day => output = 1440
            /\ \A r \in RangeInputs :
                  r.endMs - r.startMs <= span =>
                      inferCustomPeriodInterval(r.startMs, r.endMs) <= output

\* A span of exactly 21 days, the last one sampled hourly.
C10_Witness ==
    /\ pc = "inferCustomPeriodInterval"
    /\ Get(input.customRange).endMs - Get(input.customRange).startMs = 21 * Day
    /\ output = 60

---------------------------------------------------------------------------
(* Format normalizers.                                                     *)

\* JavaScript numbers of the normalizer, in ten-thousandths.
Num(v) == [finite |-> TRUE, value |-> v]
NaN == [finite |-> FALSE, value |-> 0]
Units(n) == n * 10000

\* Number(value) on the strings the model draws: a decimal literal is its
\* value, the empty string is 0, anything else is NaN.
JsNumber(str) ==
    CASE str = "0.5000" -> Num(5000)
      [] str = "7.00"   -> Num(70000)
      [] str = "0"      -> Num(0)
      [] str = ""       -> Num(0)
      [] OTHER          -> NaN

parseDollar_NoFiniteCheck(value) ==
    IF IsNull(value) THEN Null
    ELSE Some(JsNumber(Get(value)).value)

parseDollar(value) ==
    IF IsNull(value) THEN Null
    ELSE LET n == JsNumber(Get(value))
         IN  IF n.finite THEN Some(n.value) ELSE Null

OHLC == {"open", "high", "low", "close"}

DollarsKey(name) ==
    CASE name = "open"  -> "open_dollars"
      [] name = "high"  -> "high_dollars"
      [] name = "low"   -> "low_dollars"
      [] name = "close" -> "close_dollars"

\* source.<name>: Null when it is not of type number.
\* source.<name>_dollars: Null when null or undefined.
priceOf_CentsFirst(source, name) ==
    IF ~IsNull(source[name]) THEN Some(Get(source[name]) * 100)
    ELSE parseDollar(source[DollarsKey(name)])

\* parseDollar(source.x_dollars) ?? (typeof source.x === 'number' ? source.x / 100 : null)
priceOf(source, name) ==
    LET dollars == parseDollar(source[DollarsKey(name)])
    IN  IF ~IsNull(dollars) THEN dollars
        ELSE IF ~IsNull(source[name]) THEN Some(Get(source[name]) * 100)
        ELSE Null

\* c.volume ?? Number(c.volume_fp ?? 0)
updatesOf(c) ==
    IF ~IsNull(c.volume) THEN Num(Units(Get(c.volume)))
    ELSE IF ~IsNull(c.volume_fp) THEN JsNumber(Get(c.volume_fp))
    ELSE Num(0)

normalizeCandlestick_NoTimestampCheck(c) ==
    LET source == IF ~IsNull(c.price) THEN c.price ELSE c.yes_bid
    IN  IF IsNull(source) THEN Null
        ELSE LET open == priceOf(Get(source), "open")
                 high == priceOf(Get(source), "high")
                 low == priceOf(Get(source), "low")
                 close == priceOf(Get(source), "close")
             IN  IF IsNull(open) \/ IsNull(high) \/ IsNull(low) \/ IsNull(close)
                 THEN Null
                 ELSE Some([timestamp |-> OrElse(c.end_period_ts, 0) * Second,
                            open |-> Get(open), high |-> Get(high),
                            low |-> Get(low), close |-> Get(close),
                            updates |-> updatesOf(c)])

\* The callback mapped over data.candlesticks: a Candle, or null for a
\* candlestick to drop.  c.end_period_ts is Null when it is not a number.
normalizeCandlestick(c) ==
    LET source == IF ~IsNull(c.price) THEN c.price ELSE c.yes_bid
    IN  IF IsNull(source) THEN Null
        ELSE LET open == priceOf(Get(source), "open")
                 high == priceOf(Get(source), "high")
                 low == priceOf(Get(source), "low")
                 close == priceOf(Get(source), "close")
             IN  IF \/ IsNull(open) \/ IsNull(high) \/ IsNull(low) \/ IsNull(close)
                    \/ IsNull(c.end_period_ts)
                 THEN Null
                 ELSE Some([timestamp |-> Get(c.end_period_ts) * Second,
                            open |-> Get(open), high |-> Get(high),
                            low |-> Get(low), close |-> Get(close),
                            updates |-> updatesOf(c)])

NotNull(o) == ~IsNull(o)

\* data is either {marketId, candles} or {ticker, candlesticks}; a missing
\* candlesticks list is Null, an empty or missing ticker is "".
normalizeCandles(data, marketId) ==
    IF "candles" \in DOMAIN data THEN data
    ELSE LET sticks == OrElse(data.candlesticks, <<>>)
             mapped == [i \in DOMAIN sticks |-> normalizeCandlestick(sticks[i])]
             kept == SelectSeq(mapped, NotNull)
         IN  [marketId |-> IF data.ticker # "" THEN data.ticker ELSE marketId,
              candles |-> [i \in DOMAIN kept |-> Get(kept[i])]]

\* Inputs of the normalizer.  One price of a candlestick, in its two
\* encodings: integer cents (absent, or 25) and dollar string (absent, a
\* decimal, a non-numeric string, the empty string).
DollarStrings == {"0.5000", "abc", ""}

PriceInputs == [cents : {Null, Some(25)},
                dollars : {Null} \cup {Some(str) : str \in DollarStrings}]

Field(o, h, l, c) ==
    [open |-> o.cents, open_dollars |-> o.dollars,
     high |-> h.cents, high_dollars |-> h.dollars,
     low |-> l.cents, low_dollars |-> l.dollars,
     close |-> c.cents, close_dollars |-> c.dollars]

CentsOnly(n) == [cents |-> Some(n), dollars |-> Null]
DollarsOnly(str) == [cents |-> Null, dollars |-> Some(str)]
Both(n, str) == [cents |-> Some(n), dollars |-> Some(str)]
Neither == [cents |-> Null, dollars |-> Null]

Stick(ts, price, bid, volume, fp) ==
    [end_period_ts |-> ts, price |-> price, yes_bid |-> bid,
     volume |-> volume, volume_fp |-> fp]

BidField == Field(CentsOnly(75), CentsOnly(75), CentsOnly(75), CentsOnly(75))

\* Every combination of the four prices, held by price alone, by yes_bid
\* alone or by price beside a complete yes_bid, with and without a timestamp.
AllFields(prices) == {Field(o, h, l, c) : o \in prices, h \in prices,
                                          l \in prices, c \in prices}

FineSticks(fields) ==
    {Stick(ts, Some(f), Null, Some(3), Null) : ts \in {Null, Some(1)}, f \in fields}
    \cup {Stick(ts, Null, Some(f), Some(3), Null) : ts \in {Null, Some(1)}, f \in fields}
    \cup {Stick(ts, Some(f), Some(BidField), Some(3), Null) :
             ts \in {Null, Some(1)}, f \in fields}

\* A complete candlestick with every form of volume.
VolumeSticks ==
    {Stick(Some(1), Some(BidField), Null, v, fp) :
        v \in {Null, Some(3)}, fp \in {Null, Some("7.00"), Some("abc")}}

\* Candlesticks for the longer lists: the open price absent, in cents or in
\* both encodings, or no price object at all, at one of two periods or none.
CoarseSticks ==
    {Stick(ts, Some(Field(o, DollarsOnly("0.5000"), DollarsOnly("0.5000"),
                          DollarsOnly("0.5000"))), Null, Some(3), Null) :
        ts \in {Null, Some(1), Some(2)},
        o \in {Neither, CentsOnly(25), Both(25, "0.5000")}}
    \cup {Stick(ts, Null, Null, Some(3), Null) : ts \in {Null, Some(1), Some(2)}}

CanonicalCandle == [timestamp |-> Second, open |-> 2500, high |-> 5000,
                    low |-> 2500, close |-> 5000, updates |-> Num(Units(3))]

NormalizeInputs(maxSticks) ==
    {[ticker |-> "TICK", candlesticks |-> Some(<<c>>)] :
        c \in FineSticks(AllFields(PriceInputs)) \cup VolumeSticks}
    \cup {[ticker |-> t, candlesticks |-> Some(cs)] :
             t \in {"", "TICK"}, cs \in SeqsUpTo(CoarseSticks, maxSticks)}
    \cup {[ticker |-> "TICK", candlesticks |-> Null]}
    \cup {[marketId |-> "TICK", candles |-> cs] : cs \in SeqsUpTo({CanonicalCandle}, 2)}

InitNormalize ==
    /\ pc = "ready"
    /\ input \in [data : NormalizeInputs(MaxSticks), marketId : {"MKT"}]
    /\ output = Null
    /\ ChartMounted
    /\ NoFetch
    /\ NoQueries
    /\ ViewMounted

CallNormalize ==
    /\ pc = "ready"
    /\ pc' = "normalizeCandles"
    /\ output' = normalizeCandles(input.data, input.marketId)
    /\ UNCHANGED <<input, chartVars, fetchVars, queryVars, viewVars>>

NextNormalize == CallNormalize

SpecNormalize == InitNormalize /\ [][NextNormalize]_vars

---------------------------------------------------------------------------
(* Properties of the normalizer (checked under SpecNormalize).             *)

IsProviderInput == "candlesticks" \in DOMAIN input.data

InSticks == IF IsNull(input.data.candlesticks) THEN <<>> ELSE Get(input.data.candlesticks)

\* The OHLC object of candlestick i: price, or yes_bid when there is no price.
HasOhlcObject(i) == ~IsNull(InSticks[i].price) \/ ~IsNull(InSticks[i].yes_bid)

OhlcObject(i) ==
    IF ~IsNull(InSticks[i].price) THEN Get(InSticks[i].price) ELSE Get(InSticks[i].yes_bid)

\* The dollar string of a price converts to a finite number.
HasDollars(f, name) ==
    /\ ~IsNull(f[DollarsKey(name)])
    /\ JsNumber(Get(f[DollarsKey(name)])).finite

HasCents(f, name) == ~IsNull(f[name])

\* Candlestick i has all four prices, each in either encoding, and a numeric
\* end_period_ts.
IsCompleteStick(i) ==
    /\ HasOhlcObject(i)
    /\ \A name \in OHLC : HasDollars(OhlcObject(i), name) \/ HasCents(OhlcObject(i), name)
    /\ ~IsNull(InSticks[i].end_period_ts)

CompleteSticks == {i \in DOMAIN InSticks : IsCompleteStick(i)}

\* The place in the output of the candle of complete candlestick i.
RankOf(i) == Cardinality({j \in CompleteSticks : j <= i})

\* C6: a candlestick that carries, for a price, both a decimal dollar string
\* and integer cents is normalized to the number the dollar string denotes,
\* not to cents / 100.
C6_DollarsTakePrecedence ==
    (pc = "normalizeCandles" /\ IsProviderInput) =>
        \A i \in CompleteSticks : \A name \in OHLC :
            LET f == OhlcObject(i)
            IN  (HasDollars(f, name) /\ HasCents(f, name)) =>
                    /\ RankOf(i) <= Len(output.candles)
                    /\ output.candles[RankOf(i)][name]
                          = JsNumber(Get(f[DollarsKey(name)])).value
                    /\ output.candles[RankOf(i)][name] # Get(f[name]) * 100

\* One candlestick with all four prices in both encodings, "0.5000" and 25.
C6_Witness ==
    /\ pc = "normalizeCandles"
    /\ IsProviderInput
    /\ Len(InSticks) = 1
    /\ ~IsNull(InSticks[1].price)
    /\ \A name \in OHLC :
          /\ OhlcObject(1)[name] = Some(25)
          /\ OhlcObject(1)[DollarsKey(name)] = Some("0.5000")
    /\ Len(output.candles) = 1
    /\ output.candles[1].open = 5000
    /\ output.candles[1].close = 5000

\* C7: the output holds exactly one candle per complete candlestick, in
\* input order, and none for any other: its length is the input length
\* minus the number of incomplete candlesticks, and its k-th candle carries
\* the period (in milliseconds) of the k-th complete candlestick.
C7_OneCandlePerCompleteStick ==
    (pc = "normalizeCandles" /\ IsProviderInput) =>
        /\ Len(output.candles)
              = Len(InSticks) - Cardinality(DOMAIN InSticks \ CompleteSticks)
        /\ \A i \in CompleteSticks :
              /\ RankOf(i) <= Len(output.candles)
              /\ output.candles[RankOf(i)].timestamp
                    = Get(InSticks[i].end_period_ts) * Second

\* Three candlesticks, the middle one incomplete, the outer ones complete and
\* out of time order: both are kept, in input order.
C7_Witness ==
    /\ pc = "normalizeCandles"
    /\ IsProviderInput
    /\ Len(InSticks) = 3
    /\ CompleteSticks = {1, 3}
    /\ InSticks[1].end_period_ts = Some(2)
    /\ InSticks[3].end_period_ts = Some(1)
    /\ Len(output.candles) = 2
    /\ output.candles[1].timestamp = 2 * Second
    /\ output.candles[2].timestamp = Second

\* A dollar string that is not numeric: Number() of it is not finite.
IsMalformed(f, name) ==
    /\ ~IsNull(f[DollarsKey(name)])
    /\ ~JsNumber(Get(f[DollarsKey(name)])).finite

\* C8 as stated: a candlestick with a malformed dollar string in any of its
\* four prices is dropped, whatever its other fields hold.
C8_MalformedDollarsDropped ==
    (pc = "normalizeCandles" /\ IsProviderInput /\ Len(InSticks) = 1 /\ HasOhlcObject(1)) =>
        ((\E name \in OHLC : IsMalformed(OhlcObject(1), name)) => output.candles = <<>>)

\* C8 amended: a candlestick with a price whose dollar string does not
\* convert to a finite number is dropped when that price has no numeric
\* cents field either; when every such price has numeric cents, the price is
\* cents / 100 and the candlestick is kept if it is otherwise complete.
C8_MalformedDollarsFallBackToCents ==
    (pc = "normalizeCandles" /\ IsProviderInput /\ Len(InSticks) = 1 /\ HasOhlcObject(1)) =>
        LET f == OhlcObject(1)
            bad == {name \in OHLC : IsMalformed(f, name)}
        IN  /\ (\E name \in bad : ~HasCents(f, name)) => output.candles = <<>>
            /\ (bad # {} /\ (\A name \in bad : HasCents(f, name)) /\ IsCompleteStick(1)) =>
                  /\ Len(output.candles) = 1
                  /\ \A name \in bad : output.candles[1][name] = Get(f[name]) * 100

\* A candlestick complete but for its open price: "abc" and no cents.
C8_Witness ==
    /\ pc = "normalizeCandles"
    /\ IsProviderInput
    /\ Len(InSticks) = 1
    /\ HasOhlcObject(1)
    /\ IsMalformed(OhlcObject(1), "open")
    /\ ~HasCents(OhlcObject(1), "open")
    /\ \A name \in OHLC \ {"open"} : HasDollars(OhlcObject(1), name)
    /\ ~IsNull(InSticks[1].end_period_ts)
    /\ output.candles = <<>>

---------------------------------------------------------------------------
(* The ChartContent component: overlay toggles, custom compare overlays,   *)
(* query results, and the render that clips every overlay to the primary   *)
(* series' range.  Strings the user types are sequences of characters.     *)

\* String.prototype.trim, toUpperCase and indexOf on the model's characters.
RECURSIVE TrimStart(_)
TrimStart(str) ==
    IF str # <<>> /\ Head(str) = " " THEN TrimStart(Tail(str)) ELSE str

RECURSIVE TrimEnd(_)
TrimEnd(str) ==
    IF str # <<>> /\ str[Len(str)] = " "
    THEN TrimEnd(SubSeq(str, 1, Len(str) - 1)) ELSE str

Trim(str) == TrimEnd(TrimStart(str))

UpperChar(ch) ==
    CASE ch = "a" -> "A"
      [] ch = "b" -> "B"
      [] OTHER    -> ch

ToUpperCase(str) == [i \in DOMAIN str |-> UpperChar(str[i])]

IndexOf(str, ch) ==
    IF \E i \in DOMAIN str : str[i] = ch
    THEN (CHOOSE i \in DOMAIN str : str[i] = ch /\ \A j \in 1..(i - 1) : str[j] # ch) - 1
    ELSE -1

inferSeriesTicker(marketId) ==
    LET firstDash == IndexOf(marketId, "-")
    IN  IF firstDash <= 0 THEN Null ELSE Some(SubSeq(marketId, 1, firstDash))

\* query.data?.candles ?? []
CandlesOf(q) == IF IsNull(q) THEN <<>> ELSE Get(q).candles

\* candles.map((c) => ({ timestamp: c.timestamp, value: c.close * 100 }))
PercentPoints(candles) ==
    [i \in DOMAIN candles |-> [timestamp |-> candles[i].timestamp,
                               value |-> candles[i].close * 100]]

\* The *PointsRaw constants of a render (lines 1089-1096).
PointsRaw(series, q) ==
    IF IsNull(q) THEN <<>>
    ELSE IF series = "projection" THEN Get(q).points
    ELSE IF series \in {"combo", "controls"} THEN PercentPoints(Get(q).candles)
    ELSE Get(q)

marketRange(candles) ==
    IF Len(candles) = 0 THEN Null
    ELSE Some([startMs |-> candles[1].timestamp, endMs |-> candles[Len(candles)].timestamp])

\* points.map((p) => ({ x: p.timestamp, y: p.value }))
XY(points) == [i \in DOMAIN points |-> [x |-> points[i].timestamp, y |-> points[i].value]]

YAxisOf(series, q) ==
    CASE series = "projection" ->
            IF ~IsNull(q) /\ Get(q).mode = "seats" THEN "yProjection" ELSE "yPrice"
      [] series = "sp500" -> "ySp500"
      [] series = "unemployment" -> "yUnemployment"
      [] OTHER -> "yPrice"

\* The glow line and the line of one overlay: both carry the same points.
Datasets(kind, ticker, axis, points) ==
    << [kind |-> kind, ticker |-> ticker, glow |-> TRUE, yAxisID |-> axis, data |-> XY(points)],
       [kind |-> kind, ticker |-> ticker, glow |-> FALSE, yAxisID |-> axis, data |-> XY(points)] >>

SeriesPoints_Unclipped(series, q, range) == PointsRaw(series, q)

\* projectionPoints, comboPoints, ... (lines 1110-1118)
SeriesPoints(series, q, range) == clipPointsToRange(PointsRaw(series, q), range)

SeriesDatasets(series, q, shown, range) ==
    LET points == SeriesPoints(series, q, range)
    IN  IF shown /\ Len(points) > 0
        THEN Datasets(series, <<>>, YAxisOf(series, q), points)
        ELSE <<>>

\* customCompareOverlays (lines 1119-1133) and their datasets (1664-1713)
CustomDatasets(overlay, q, range) ==
    LET rawPoints == IF IsNull(q) THEN <<>> ELSE PercentPoints(Get(q).candles)
        points == clipPointsToRange(rawPoints, range)
    IN  IF ~overlay.enabled \/ Len(points) = 0 THEN <<>>
        ELSE Datasets("custom", overlay.ticker, "yPrice", points)

RECURSIVE Flatten(_)
Flatten(lists) == IF lists = <<>> THEN <<>> ELSE Head(lists) \o Flatten(Tail(lists))

\* The overlay part of chartData (lines 1396-1713), in the order drawn.
ChartDataOf(q, sq, sh, markets, cq) ==
    LET range == marketRange(CandlesOf(q))
    IN  SeriesDatasets("projection", sq["projection"], sh["projection"], range)
        \o SeriesDatasets("combo", sq["combo"], sh["combo"], range)
        \o SeriesDatasets("controls", sq["controls"], sh["controls"], range)
        \o SeriesDatasets("trumpApproval", sq["trumpApproval"], sh["trumpApproval"], range)
        \o SeriesDatasets("sp500", sq["sp500"], sh["sp500"], range)
        \o SeriesDatasets("unemployment", sq["unemployment"], sh["unemployment"], range)
        \o Flatten([i \in DOMAIN markets |->
                       CustomDatasets(markets[i], cq[markets[i].ticker], range)])

\* Every handler is followed by a render of the new state.
Render ==
    chartData' = ChartDataOf(query', seriesQueries', show', customCompareMarkets',
                             customCompareQueries')

Step ==
    /\ steps < MaxSteps
    /\ steps' = steps + 1

\* Inputs of the component.  Candle and point lists as the upstream and the
\* fetchers return them: ascending in time, equal neighbours allowed.
ChartCandle(ts) ==
    [timestamp |-> ts, open |-> 5000, high |-> 5000, low |-> 5000, close |-> 5000,
     updates |-> Num(0)]

ChartPoint(ts) == [timestamp |-> ts, value |-> 420000]

TsLists(maxTs) ==
    {<<>>} \cup {<<a>> : a \in 0..maxTs}
           \cup {l \in {<<a, b>> : a, b \in 0..maxTs} : IsAscending(l)}

PrimaryInputs(maxTs) ==
    {[i \in DOMAIN ts |-> ChartCandle(ts[i])] : ts \in TsLists(maxTs)}

OverlayCandleInputs(maxTs) ==
    {[i \in DOMAIN ts |-> ChartCandle(ts[i])] : ts \in TsLists(maxTs)}

OverlayPointInputs(maxTs) ==
    {[i \in DOMAIN ts |-> ChartPoint(ts[i])] : ts \in TsLists(maxTs)}

\* What the query function of a fixed overlay resolves to.
SeriesData(series, maxTs) ==
    IF series = "projection"
    THEN [mode : {"seats", "percent"}, points : OverlayPointInputs(maxTs)]
    ELSE IF series \in {"combo", "controls"}
    THEN [marketId : {series}, candles : OverlayCandleInputs(maxTs)]
    ELSE OverlayPointInputs(maxTs)

CompareInputs ==
    { <<>>, <<" ">>, <<" ", "a", "-", "1", " ">>, <<"A", "-", "1">>,
      <<"-", "1">>, <<"A", "1">>, <<"b", "-", "2">> }

Init ==
    /\ NoCall
    /\ ChartMounted
    /\ NoFetch
    /\ NoQueries
    /\ ViewMounted

\* onChange of an overlay checkbox (lines 2431-2551)
ToggleOverlay(series) ==
    /\ Step
    /\ show' = [show EXCEPT ![series] = ~show[series]]
    /\ UNCHANGED <<query, seriesQueries, customCompareMarkets, customCompareQueries,
                   compareTickerInput, compareInputError>>
    /\ Render
    /\ UNCHANGED <<callVars, fetchVars, queryVars, viewVars>>

\* onChange of the "add ticker" input (lines 2320-2323)
ChangeCompareTickerInput(text) ==
    /\ Step
    /\ compareTickerInput' = text
    /\ compareInputError' = Null
    /\ UNCHANGED <<query, seriesQueries, show, customCompareMarkets, customCompareQueries>>
    /\ Render
    /\ UNCHANGED <<callVars, fetchVars, queryVars, viewVars>>

\* The handler without its check for a ticker already in the list.
addCustomCompareMarket_NoDuplicateCheck ==
    /\ Step
    /\ LET ticker == ToUpperCase(Trim(compareTickerInput))
           derivedSeries == inferSeriesTicker(ticker)
       IN  IF ticker = <<>>
           THEN /\ compareInputError' = Some("Enter a Kalshi ticker (example: CONTROLS-2026-D).")
                /\ UNCHANGED <<customCompareMarkets, customCompareQueries, compareTickerInput>>
           ELSE IF IsNull(derivedSeries)
           THEN /\ compareInputError'
                      = Some("Ticker format is invalid. Expected format like SERIES-... .")
                /\ UNCHANGED <<customCompareMarkets, customCompareQueries, compareTickerInput>>
           ELSE /\ customCompareMarkets' =
                      Append(customCompareMarkets,
                             [id |-> ticker, ticker |-> ticker,
                              seriesTicker |-> Get(derivedSeries),
                              label |-> ticker \o <<" ", "Market">>,
                              color |-> Len(customCompareMarkets) % 6,
                              enabled |-> TRUE])
                \* a query the cache has not seen has no data
                /\ customCompareQueries' =
                      [t \in DOMAIN customCompareQueries \cup {ticker} |->
                          IF t \in DOMAIN customCompareQueries
                          THEN customCompareQueries[t] ELSE Null]
                /\ compareInputError' = Null
                /\ compareTickerInput' = <<>>
    /\ UNCHANGED <<query, seriesQueries, show>>
    /\ Render
    /\ UNCHANGED <<callVars, fetchVars, queryVars, viewVars>>

\* lines 1161-1191
addCustomCompareMarket ==
    /\ Step
    /\ LET ticker == ToUpperCase(Trim(compareTickerInput))
           derivedSeries == inferSeriesTicker(ticker)
       IN  IF ticker = <<>>
           THEN /\ compareInputError' = Some("Enter a Kalshi ticker (example: CONTROLS-2026-D).")
                /\ UNCHANGED <<customCompareMarkets, customCompareQueries, compareTickerInput>>
           ELSE IF \E i \in DOMAIN customCompareMarkets : customCompareMarkets[i].ticker = ticker
           THEN /\ compareInputError' = Some("That market is already added.")
                /\ UNCHANGED <<customCompareMarkets, customCompareQueries, compareTickerInput>>
           ELSE IF IsNull(derivedSeries)
           THEN /\ compareInputError'
                      = Some("Ticker format is invalid. Expected format like SERIES-... .")
                /\ UNCHANGED <<customCompareMarkets, customCompareQueries, compareTickerInput>>
           ELSE /\ customCompareMarkets' =
                      Append(customCompareMarkets,
                             [id |-> ticker, ticker |-> ticker,
                              seriesTicker |-> Get(derivedSeries),
                              label |-> ticker \o <<" ", "Market">>,
                              color |-> Len(customCompareMarkets) % 6,
                              enabled |-> TRUE])
                \* a query the cache has not seen has no data
                /\ customCompareQueries' =
                      [t \in DOMAIN customCompareQueries \cup {ticker} |->
                          IF t \in DOMAIN customCompareQueries
                          THEN customCompareQueries[t] ELSE Null]
                /\ compareInputError' = Null
                /\ compareTickerInput' = <<>>
    /\ UNCHANGED <<query, seriesQueries, show>>
    /\ Render
    /\ UNCHANGED <<callVars, fetchVars, queryVars, viewVars>>

\* onChange of a custom overlay's checkbox (lines 2379-2385)
ToggleCustomCompare(i) ==
    /\ Step
    /\ customCompareMarkets' =
          [k \in DOMAIN customCompareMarkets |->
              IF customCompareMarkets[k].id = customCompareMarkets[i].id
              THEN [customCompareMarkets[k] EXCEPT !.enabled = ~customCompareMarkets[i].enabled]
              ELSE customCompareMarkets[k]]
    /\ UNCHANGED <<query, seriesQueries, show, customCompareQueries,
                   compareTickerInput, compareInputError>>
    /\ Render
    /\ UNCHANGED <<callVars, fetchVars, queryVars, viewVars>>

\* onClick of a custom overlay's Remove button (lines 2391-2395)
RemoveCustomCompare(i) ==
    /\ Step
    /\ LET keep(m) == m.id # customCompareMarkets[i].id
       IN  customCompareMarkets' = SelectSeq(customCompareMarkets, keep)
    /\ UNCHANGED <<query, seriesQueries, show, customCompareQueries,
                   compareTickerInput, compareInputError>>
    /\ Render
    /\ UNCHANGED <<callVars, fetchVars, queryVars, viewVars>>

\* The primary query (lines 928-945) resolves.
PrimaryResponse(candles) ==
    /\ Step
    /\ query' = Some([marketId |-> "MKT", candles |-> candles])
    /\ UNCHANGED <<seriesQueries, show, customCompareMarkets, customCompareQueries,
                   compareTickerInput, compareInputError>>
    /\ Render
    /\ UNCHANGED <<callVars, fetchVars, queryVars, viewVars>>

\* An enabled fixed overlay query (lines 947-1052) resolves.
SeriesResponse(series, data) ==
    /\ Step
    /\ show[series]
    /\ seriesQueries' = [seriesQueries EXCEPT ![series] = Some(data)]
    /\ UNCHANGED <<query, show, customCompareMarkets, customCompareQueries,
                   compareTickerInput, compareInputError>>
    /\ Render
    /\ UNCHANGED <<callVars, fetchVars, queryVars, viewVars>>

\* An enabled custom-compare query (lines 1054-1078) resolves.
CustomCompareResponse(i, candles) ==
    /\ Step
    /\ customCompareMarkets[i].enabled
    /\ customCompareQueries' =
          [customCompareQueries EXCEPT ![customCompareMarkets[i].ticker] =
              Some([marketId |-> customCompareMarkets[i].ticker, candles |-> candles])]
    /\ UNCHANGED <<query, seriesQueries, show, customCompareMarkets,
                   compareTickerInput, compareInputError>>
    /\ Render
    /\ UNCHANGED <<callVars, fetchVars, queryVars, viewVars>>

Next ==
    \/ \E series \in ChartSeries : ToggleOverlay(series)
    \/ \E text \in CompareInputs : ChangeCompareTickerInput(text)
    \/ addCustomCompareMarket
    \/ \E i \in DOMAIN customCompareMarkets : ToggleCustomCompare(i)
    \/ \E i \in DOMAIN customCompareMarkets : RemoveCustomCompare(i)
    \/ \E candles \in PrimaryInputs(MaxChartTs) : PrimaryResponse(candles)
    \/ \E series \in ChartSeries : \E data \in SeriesData(series, MaxChartTs) :
          SeriesResponse(series, data)
    \/ \E i \in DOMAIN customCompareMarkets :
          \E candles \in OverlayCandleInputs(MaxChartTs) : CustomCompareResponse(i, candles)

Spec == Init /\ [][Next]_vars

---------------------------------------------------------------------------
(* Properties of the component (checked under Spec).                       *)

\* C5: whenever the primary candle series is non-empty, every point of
\* every overlay dataset handed to the chart (projection, combo, controls,
\* approval, S&P 500, unemployment and each custom compare overlay) has a
\* timestamp between the first and the last primary candle's timestamps.
C5_OverlaysWithinPrimaryRange ==
    LET candles == CandlesOf(query)
    IN  Len(candles) > 0 =>
            \A d \in DOMAIN chartData : \A k \in DOMAIN chartData[d].data :
                /\ candles[1].timestamp <= chartData[d].data[k].x
                /\ chartData[d].data[k].x <= candles[Len(candles)].timestamp

\* The S&P 500 overlay is shown over a primary series spanning 1..2; its
\* query returned a point before the range and one on its end, and the
\* chart got only the latter.
C5_Witness ==
    /\ Len(CandlesOf(query)) = 2
    /\ CandlesOf(query)[1].timestamp = 1
    /\ CandlesOf(query)[2].timestamp = 2
    /\ show["sp500"]
    /\ seriesQueries["sp500"] = Some(<<ChartPoint(0), ChartPoint(2)>>)
    /\ Len(chartData) = 2
    /\ chartData[2].kind = "sp500"
    /\ chartData[2].data = <<[x |-> 2, y |-> 420000]>>

---------------------------------------------------------------------------
(* The custom compare overlays on their own: the user has typed a ticker   *)
(* and adds, toggles and removes overlays.                                 *)

InitCompare ==
    /\ NoCall
    /\ query = Null
    /\ seriesQueries = [s \in ChartSeries |-> Null]
    /\ show = [s \in ChartSeries |-> FALSE]
    /\ customCompareMarkets = <<>>
    /\ customCompareQueries = <<>>
    /\ compareTickerInput \in CompareInputs
    /\ compareInputError = Null
    /\ chartData = <<>>
    /\ steps = 0
    /\ NoFetch
    /\ NoQueries
    /\ ViewMounted

NextCompare ==
    \/ \E text \in CompareInputs : ChangeCompareTickerInput(text)
    \/ addCustomCompareMarket
    \/ \E i \in DOMAIN customCompareMarkets : ToggleCustomCompare(i)
    \/ \E i \in DOMAIN customCompareMarkets : RemoveCustomCompare(i)

SpecCompare == InitCompare /\ [][NextCompare]_vars

\* The ticker an add would use, and whether the add is to be rejected.
TypedTicker == ToUpperCase(Trim(compareTickerInput))

HasSeriesPrefix(ticker) ==
    \E n \in 1..(Len(ticker) - 1) :
        ticker[n + 1] = "-" /\ \A k \in 1..n : ticker[k] # "-"

AddIsRejected ==
    \/ TypedTicker = <<>>
    \/ \E i \in DOMAIN customCompareMarkets : customCompareMarkets[i].ticker = TypedTicker
    \/ ~HasSeriesPrefix(TypedTicker)

\* C25: in the list of custom compare overlays no two overlays have the
\* same ticker, and every overlay's series key is the non-empty part of its
\* ticker before the first '-'; an add with an empty input, a ticker already
\* in the list or a ticker without such a part leaves the list as it was
\* and sets the input error, any other add appends one overlay; a remove
\* deletes the targeted overlay and leaves the others as they were, in
\* their order.
C25_OverlayListWellFormed ==
    /\ [](/\ \A i, j \in DOMAIN customCompareMarkets :
                customCompareMarkets[i].ticker = customCompareMarkets[j].ticker => i = j
          /\ \A i \in DOMAIN customCompareMarkets :
                LET m == customCompareMarkets[i]
                IN  /\ HasSeriesPrefix(m.ticker)
                    /\ \E n \in 1..(Len(m.ticker) - 1) :
                          /\ m.ticker[n + 1] = "-"
                          /\ \A k \in 1..n : m.ticker[k] # "-"
                          /\ m.seriesTicker = SubSeq(m.ticker, 1, n))
    /\ [][/\ addCustomCompareMarket =>
                IF AddIsRejected
                THEN /\ customCompareMarkets' = customCompareMarkets
                     /\ compareInputError' # Null
                ELSE /\ Len(customCompareMarkets') = Len(customCompareMarkets) + 1
                     /\ SubSeq(customCompareMarkets', 1, Len(customCompareMarkets))
                           = customCompareMarkets
                     /\ customCompareMarkets'[Len(customCompareMarkets')].ticker = TypedTicker
                     /\ compareInputError' = Null
          /\ \A i \in DOMAIN customCompareMarkets :
                RemoveCustomCompare(i) =>
                    customCompareMarkets' =
                        [k \in 1..(Len(customCompareMarkets) - 1) |->
                            IF k < i THEN customCompareMarkets[k]
                            ELSE customCompareMarkets[k + 1]]
         ]_vars

\* B-2 was added second (it has the second colour) and is the only overlay
\* left: A-1 was removed.
C25_Witness ==
    /\ Len(customCompareMarkets) = 1
    /\ customCompareMarkets[1].ticker = <<"B", "-", "2">>
    /\ customCompareMarkets[1].seriesTicker = <<"B">>
    /\ customCompareMarkets[1].color = 1

---------------------------------------------------------------------------
(* Exact arithmetic.  The quotients the fetchers compute (a weighted       *)
(* average, a daily mean, an exponential moving average) are kept as       *)
(* fractions in lowest terms with a positive denominator, so two equal     *)
(* numbers are equal records; floating-point rounding is not modelled.     *)

RECURSIVE GCD(_, _)
GCD(a, b) == IF b = 0 THEN a ELSE GCD(b, a % b)

\* n / d for d # 0
Rat(n, d) ==
    LET g == GCD(Abs(n), Abs(d))
        sign == IF d < 0 THEN -1 ELSE 1
    IN  [num |-> (sign * n) \div g, den |-> (sign * d) \div g]

RatAdd(a, b) == Rat(a.num * b.den + b.num * a.den, a.den * b.den)

RatMul(a, b) == Rat(a.num * b.num, a.den * b.den)

RatLess(a, b) == a.num * b.den < b.num * a.den

RatMax(a, b) == IF RatLess(a, b) THEN b ELSE a

RatMin(a, b) == IF RatLess(b, a) THEN b ELSE a

\* Array.from(new Set(...)).sort((a, b) => a - b)
RECURSIVE SortAscending(_)
SortAscending(S) ==
    IF S = {} THEN <<>>
    ELSE LET least == CHOOSE x \in S : \A y \in S : x <= y
         IN  <<least>> \o SortAscending(S \ {least})

---------------------------------------------------------------------------
(* The weighted series of the seat projection (lines 776-800).  A close is *)
(* a price in ten-thousandths, a seat count is an integer, and the value   *)
(* of a point, weighted / totalProb, is a number of seats.                 *)

\* The inner loop with every priced market counted at a price of 1 in
\* totalProb.
RECURSIVE basketSums_FullProbability(_, _, _, _)
basketSums_FullProbability(results, ts, i, acc) ==
    IF i > Len(results) THEN acc
    ELSE LET market == results[i]
             p == findCloseAtOrBefore(market.candles, ts)
         IN  IF IsNull(p) THEN basketSums_FullProbability(results, ts, i + 1, acc)
             ELSE basketSums_FullProbability(results, ts, i + 1,
                             [weighted |-> acc.weighted + market.seats * Get(p),
                              totalProb |-> acc.totalProb + 10000])

\* The inner loop: the two sums over the markets that have a close at or
\* before ts.
RECURSIVE basketSums(_, _, _, _)
basketSums(results, ts, i, acc) ==
    IF i > Len(results) THEN acc
    ELSE LET market == results[i]
             p == findCloseAtOrBefore(market.candles, ts)
         IN  IF IsNull(p) THEN basketSums(results, ts, i + 1, acc)
             ELSE basketSums(results, ts, i + 1,
                             [weighted |-> acc.weighted + market.seats * Get(p),
                              totalProb |-> acc.totalProb + Get(p)])

\* The loop with `totalProb >= 0` for its test: 0 / 0 is NaN.
RECURSIVE projectionLoop_EmitOnZero(_, _, _)
projectionLoop_EmitOnZero(results, baseTimestamps, i) ==
    IF i > Len(baseTimestamps) THEN <<>>
    ELSE LET ts == baseTimestamps[i]
             sums == basketSums(results, ts, 1, [weighted |-> 0, totalProb |-> 0])
         IN  (IF sums.totalProb > 0
              THEN <<[timestamp |-> ts, value |-> Rat(sums.weighted, sums.totalProb)]>>
              ELSE IF sums.totalProb = 0 THEN <<[timestamp |-> ts, value |-> NaN]>>
              ELSE <<>>)
             \o projectionLoop_EmitOnZero(results, baseTimestamps, i + 1)

\* for (const ts of baseTimestamps) { ... if (totalProb > 0) points.push(...) }
RECURSIVE projectionLoop(_, _, _)
projectionLoop(results, baseTimestamps, i) ==
    IF i > Len(baseTimestamps) THEN <<>>
    ELSE LET ts == baseTimestamps[i]
             sums == basketSums(results, ts, 1, [weighted |-> 0, totalProb |-> 0])
         IN  (IF sums.totalProb > 0
              THEN <<[timestamp |-> ts, value |-> Rat(sums.weighted, sums.totalProb)]>>
              ELSE <<>>)
             \o projectionLoop(results, baseTimestamps, i + 1)

\* The reference taken whenever it is given, an empty one included.
baseTimestampsOf_AnyReference(results, referenceTimestamps) ==
    IF ~IsNull(referenceTimestamps)
    THEN Get(referenceTimestamps)
    ELSE SortAscending(UNION {Range(Timestamps(results[i].candles)) : i \in DOMAIN results})

\* referenceTimestamps (Null: undefined) when it has an element, else the
\* distinct candle timestamps of all markets in ascending order.
baseTimestampsOf(results, referenceTimestamps) ==
    IF ~IsNull(referenceTimestamps) /\ Len(Get(referenceTimestamps)) > 0
    THEN Get(referenceTimestamps)
    ELSE SortAscending(UNION {Range(Timestamps(results[i].candles)) : i \in DOMAIN results})

expectedSeatsPoints(results, referenceTimestamps) ==
    projectionLoop(results, baseTimestampsOf(results, referenceTimestamps), 1)

---------------------------------------------------------------------------
(* Inputs of the weighted series: one to MaxBasket markets, the i-th with  *)
(* 10 * i seats (seatMarkets is sorted by seats), each with up to two      *)
(* candles strictly ascending in time and closes of 0, 0.3 or 0.7, or with *)
(* one candle whose close is below 0.                                      *)

MaxBasket == 2          \* most markets in a basket
MaxSeatTs == 1          \* candle and reference timestamps lie in 0..MaxSeatTs

SeatCloses == {0, 3000, 7000}

SeatCandle(ts, close) == [timestamp |-> ts, close |-> close]

SeatCandleLists(maxTs) ==
    {<<>>, <<SeatCandle(0, -3000)>>}
    \cup {<<SeatCandle(a, x)>> : a \in 0..maxTs, x \in SeatCloses}
    \cup UNION {{<<SeatCandle(a, x), SeatCandle(b, y)>> :
                    b \in (a + 1)..maxTs, x \in SeatCloses, y \in SeatCloses} :
                a \in 0..maxTs}

Baskets(maxBasket, maxTs) ==
    UNION {{[i \in 1..n |-> [ticker |-> i, seats |-> 10 * i, candles |-> cs[i]]] :
                cs \in [1..n -> SeatCandleLists(maxTs)]} : n \in 1..maxBasket}

\* No reference, an empty one, all timestamps ascending or descending, one
\* timestamp, or one timestamp twice.
ReferenceInputs(maxTs) ==
    {Null, Some(<<>>),
     Some([i \in 1..(maxTs + 1) |-> i - 1]),
     Some([i \in 1..(maxTs + 1) |-> maxTs + 1 - i])}
    \cup {Some(<<t>>) : t \in 0..maxTs}
    \cup {Some(<<t, t>>) : t \in 0..maxTs}

InitProjection ==
    /\ pc = "ready"
    /\ input \in [candleResults : Baskets(MaxBasket, MaxSeatTs),
                  referenceTimestamps : ReferenceInputs(MaxSeatTs)]
    /\ output = Null
    /\ ChartMounted
    /\ NoFetch
    /\ NoQueries
    /\ ViewMounted

CallExpectedSeatsPoints ==
    /\ pc = "ready"
    /\ pc' = "expectedSeatsPoints"
    /\ output' = expectedSeatsPoints(input.candleResults, input.referenceTimestamps)
    /\ UNCHANGED <<input, chartVars, fetchVars, queryVars, viewVars>>

NextProjection == CallExpectedSeatsPoints

SpecProjection == InitProjection /\ [][NextProjection]_vars

---------------------------------------------------------------------------
(* Properties of the weighted series (checked under SpecProjection).       *)

\* The candles of a market at or before T, and the close of the last one.
AtOrBefore(candles, T) == {i \in DOMAIN candles : candles[i].timestamp <= T}

LastClose(candles, T) ==
    candles[CHOOSE i \in AtOrBefore(candles, T) : \A j \in AtOrBefore(candles, T) : j <= i].close

PricedMarkets(results, T) == {m \in DOMAIN results : AtOrBefore(results[m].candles, T) # {}}

\* The sum over a set of markets of the last close at or before T, each
\* multiplied by the market's seats when bySeats.
RECURSIVE SumOver(_, _, _, _)
SumOver(markets, results, T, bySeats) ==
    IF markets = {} THEN 0
    ELSE LET m == CHOOSE x \in markets : TRUE
             price == LastClose(results[m].candles, T)
         IN  (IF bySeats THEN results[m].seats * price ELSE price)
             + SumOver(markets \ {m}, results, T, bySeats)

PriceSum(results, T) == SumOver(PricedMarkets(results, T), results, T, FALSE)

SeatPriceSum(results, T) == SumOver(PricedMarkets(results, T), results, T, TRUE)

\* C11: for every reference timestamp T the weighted series has a point at
\* T exactly when the sum over the markets of the last close at or before
\* T is above 0, and the value of a point at T is
\* sum(seats * price) / sum(price) over the markets that have a candle at
\* or before T; the points follow the order of the reference timestamps.
C11_WeightedAverageWhenPriced ==
    pc = "expectedSeatsPoints" =>
        LET results == input.candleResults
            base == baseTimestampsOf(results, input.referenceTimestamps)
            Priced(T) == PriceSum(results, T) > 0
        IN  /\ Timestamps(output) = SelectSeq(base, Priced)
            /\ \A k \in DOMAIN output :
                  LET T == output[k].timestamp
                  IN  /\ output[k].value.den > 0
                      /\ output[k].value.num * PriceSum(results, T)
                            = SeatPriceSum(results, T) * output[k].value.den

\* Prices 0.3 and 0.7 at timestamp 1 with 10 and 20 seats give 17; at
\* timestamp 0 the only price is 0 and no point is emitted.
C11_Witness ==
    /\ pc = "expectedSeatsPoints"
    /\ Len(input.candleResults) = 2
    /\ input.candleResults[1].candles = <<SeatCandle(1, 3000)>>
    /\ input.candleResults[2].candles = <<SeatCandle(0, 0), SeatCandle(1, 7000)>>
    /\ input.referenceTimestamps = Some(<<0, 1>>)
    /\ output = <<[timestamp |-> 1, value |-> [num |-> 17, den |-> 1]]>>

\* The candle timestamps of all markets.
AllCandleTimestamps(results) ==
    UNION {{results[m].candles[i].timestamp : i \in DOMAIN results[m].candles} :
              m \in DOMAIN results}

\* a is b with some entries left out, the order kept.
IsSubsequence(a, b) ==
    \E f \in [DOMAIN a -> DOMAIN b] :
        /\ \A i \in DOMAIN a : a[i] = b[f[i]]
        /\ \A i, j \in DOMAIN a : i < j => f[i] < f[j]

\* C28: the reference timestamps of the seat projection are the primary
\* series' timestamps when that list is given and non-empty, and otherwise
\* the candle timestamps of all fetched markets, each once, in ascending
\* order; the timestamps of the output points are the reference timestamps
\* with some entries left out, in the same order, so no reference entry
\* gives more than one point.
C28_PointsFollowReference ==
    pc = "expectedSeatsPoints" =>
        LET results == input.candleResults
            given == input.referenceTimestamps
        IN  IF ~IsNull(given) /\ Get(given) # <<>>
            THEN IsSubsequence(Timestamps(output), Get(given))
            ELSE \E base \in [1..Cardinality(AllCandleTimestamps(results))
                                 -> AllCandleTimestamps(results)] :
                    /\ \A i, j \in DOMAIN base : i < j => base[i] < base[j]
                    /\ IsSubsequence(Timestamps(output), base)
                    /\ \A k \in DOMAIN base :
                          PriceSum(results, base[k]) > 0
                              => \E n \in DOMAIN output : output[n].timestamp = base[k]

\* An empty reference list: the points follow the candle timestamps 0 and 1.
C28_Witness ==
    /\ pc = "expectedSeatsPoints"
    /\ input.referenceTimestamps = Some(<<>>)
    /\ Len(input.candleResults) = 2
    /\ input.candleResults[1].candles = <<SeatCandle(1, 3000)>>
    /\ input.candleResults[2].candles = <<SeatCandle(0, 7000)>>
    /\ Timestamps(output) = <<0, 1>>

\* C29: when no market has a close below 0, the value of every point of the
\* seat projection lies between the smallest and the largest seat count of
\* the markets.
C29_ValueWithinSeatCounts ==
    (/\ pc = "expectedSeatsPoints"
     /\ \A m \in DOMAIN input.candleResults :
           \A i \in DOMAIN input.candleResults[m].candles :
               input.candleResults[m].candles[i].close >= 0) =>
        LET results == input.candleResults
            seatCounts == {results[m].seats : m \in DOMAIN results}
        IN  \A k \in DOMAIN output :
               /\ \E least \in seatCounts :
                     /\ \A n \in seatCounts : least <= n
                     /\ ~RatLess(output[k].value, Rat(least, 1))
               /\ \E most \in seatCounts :
                     /\ \A n \in seatCounts : n <= most
                     /\ ~RatLess(Rat(most, 1), output[k].value)

\* Without a reference, prices 0.3 and 0.7 at timestamp 0 with 10 and 20
\* seats give a value strictly between 10 and 20.
C29_Witness ==
    /\ pc = "expectedSeatsPoints"
    /\ input.referenceTimestamps = Null
    /\ Len(input.candleResults) = 2
    /\ input.candleResults[1].candles = <<SeatCandle(0, 3000)>>
    /\ input.candleResults[2].candles = <<SeatCandle(0, 7000)>>
    /\ Len(output) = 1
    /\ RatLess(Rat(10, 1), output[1].value)
    /\ RatLess(output[1].value, Rat(20, 1))

---------------------------------------------------------------------------
(* The fetchers as asynchronous tasks.  A task runs from a call to its     *)
(* first await in one step, and from the settling of what it awaits to its *)
(* next await or its end in one step.  `requests` lists the network        *)
(* requests the task has issued; `output` is Null until the task's promise *)
(* settles.                                                                *)

Fulfilled(value) == Some([status |-> "fulfilled", value |-> value])
Rejected(message) == Some([status |-> "rejected", message |-> message])

IsRejected(o) == ~IsNull(o) /\ Get(o).status = "rejected"
IsFulfilled(o) == ~IsNull(o) /\ Get(o).status = "fulfilled"

\* Boolean(str) of an optional string: undefined and "" are falsy.
Truthy(str) == ~IsNull(str) /\ Get(str) # <<>>

\* The base URLs of the model and whether one contains a Kalshi marker
\* ('kalshi.com', 'kalshi.co', '/trade-api', '/kalshi-api', '/api/kalshi').
ApiBaseUrls == {"/api/kalshi", "https://prices.example/v1"}

IncludesKalshiMarker(normalizedBase) == normalizedBase = "/api/kalshi"

MissingSeriesError == "Kalshi mode requires seriesTicker or a marketId format like SERIES-..."

\* The request with the series check after it instead of before it.
marketPricesRequest_RequestBeforeCheck(apiBaseUrl, marketId, seriesTicker) ==
    LET isKalshi == Truthy(seriesTicker) \/ IncludesKalshiMarker(apiBaseUrl)
        resolvedSeries == IF Truthy(seriesTicker) THEN seriesTicker
                          ELSE inferSeriesTicker(marketId)
    IN  IF isKalshi
        THEN [error |-> IF Truthy(resolvedSeries) THEN Null ELSE Some(MissingSeriesError),
              request |-> Some([label |-> "Kalshi candlesticks",
                                series |-> resolvedSeries, market |-> marketId])]
        ELSE [error |-> Null,
              request |-> Some([label |-> "market prices", series |-> Null,
                                market |-> marketId])]

\* fetchMarketPrices up to its await: the error it throws, or the request it
\* issues through fetchJsonOrThrow.
marketPricesRequest(apiBaseUrl, marketId, seriesTicker) ==
    LET isKalshi == Truthy(seriesTicker) \/ IncludesKalshiMarker(apiBaseUrl)
        resolvedSeries == IF Truthy(seriesTicker) THEN seriesTicker
                          ELSE inferSeriesTicker(marketId)
    IN  IF isKalshi
        THEN IF ~Truthy(resolvedSeries)
             THEN [error |-> Some(MissingSeriesError), request |-> Null]
             ELSE [error |-> Null,
                   request |-> Some([label |-> "Kalshi candlesticks",
                                     series |-> resolvedSeries, market |-> marketId])]
        ELSE [error |-> Null,
              request |-> Some([label |-> "market prices", series |-> Null,
                                market |-> marketId])]

\* Number(seatRaw) of a custom_strike value: a number is itself; of the
\* strings the model draws, a decimal literal is its value, "" is 0 and any
\* other is NaN.  Seat counts are whole numbers, not ten-thousandths.
NumberOfStrike(raw) ==
    IF raw.type = "number" THEN Num(raw.number)
    ELSE CASE raw.string = "10" -> Num(10)
           [] raw.string = "20" -> Num(20)
           [] raw.string = ""   -> Num(0)
           [] OTHER             -> NaN

\* seatsOf without its `seatRaw != null` guard, a missing threshold read as
\* Number(null), which is 0.
seatsOf_NullAsZero(m) ==
    LET seatRaw == IF IsNull(m.custom_strike) THEN Null
                   ELSE IF ~IsNull(Get(m.custom_strike).Seats)
                        THEN Get(m.custom_strike).Seats
                        ELSE Get(m.custom_strike).seats
    IN  IF ~IsNull(seatRaw) THEN NumberOfStrike(Get(seatRaw)) ELSE Num(0)

\* m.custom_strike?.Seats ?? m.custom_strike?.seats, then Number(...) unless
\* it is null or undefined.
seatsOf(m) ==
    LET seatRaw == IF IsNull(m.custom_strike) THEN Null
                   ELSE IF ~IsNull(Get(m.custom_strike).Seats)
                        THEN Get(m.custom_strike).Seats
                        ELSE Get(m.custom_strike).seats
    IN  IF ~IsNull(seatRaw) THEN NumberOfStrike(Get(seatRaw)) ELSE NaN

\* Array.prototype.sort((a, b) => a.seats - b.seats): stable, ascending.
RECURSIVE InsertBySeats(_, _)
InsertBySeats(sorted, m) ==
    IF sorted = <<>> THEN <<m>>
    ELSE IF sorted[Len(sorted)].seats <= m.seats THEN Append(sorted, m)
    ELSE Append(InsertBySeats(SubSeq(sorted, 1, Len(sorted) - 1), m), sorted[Len(sorted)])

RECURSIVE SortBySeats(_)
SortBySeats(ms) ==
    IF ms = <<>> THEN <<>>
    ELSE InsertBySeats(SortBySeats(SubSeq(ms, 1, Len(ms) - 1)), ms[Len(ms)])

HasFiniteSeats(m) == seatsOf(m).finite

\* .map(...).filter((m) => m !== null).sort((a, b) => a.seats - b.seats)
seatMarketsOf(markets) ==
    LET kept == SelectSeq(markets, HasFiniteSeats)
    IN  SortBySeats([i \in DOMAIN kept |->
                        [ticker |-> kept[i].ticker, seats |-> seatsOf(kept[i]).value]])

MissingSeriesTickerError == "Missing series ticker for expected seats projection."
NoSeatMarketsError == "No seat-strike markets found for this event."

IsSettledOk(r) == r.state = "fulfilled"

\* Promise.all that waits for every sub-fetch and projects over those that
\* succeeded.
promiseAll_AllSettled(results, message, referenceTimestamps) ==
    IF \E i \in DOMAIN results : results[i].state = "pending" THEN Null
    ELSE Fulfilled(expectedSeatsPoints(SelectSeq(results, IsSettledOk), referenceTimestamps))

\* Promise.all over the sub-fetches followed by the weighted series: rejected
\* with the message of the sub-fetch that failed, pending while none failed
\* and one is pending, else fulfilled with the points.
promiseAll(results, message, referenceTimestamps) ==
    IF \E i \in DOMAIN results : results[i].state = "rejected" THEN Rejected(message)
    ELSE IF \E i \in DOMAIN results : results[i].state = "pending" THEN Null
    ELSE Fulfilled(expectedSeatsPoints(results, referenceTimestamps))

---------------------------------------------------------------------------
(* Inputs of the tasks and what the network answers.                       *)

MaxMarkets == 2         \* most markets in an event

\* custom_strike of an event market: absent, Seats a number, seats a
\* string, Seats the empty string, Seats not numeric beside a numeric seats.
Strike(upper, lower) == Some([Seats |-> upper, seats |-> lower])

\* A JSON value that is a number, and one that is a string.
JsNum(n) == Some([type |-> "number", number |-> n, string |-> ""])
JsStr(str) == Some([type |-> "string", number |-> 0, string |-> str])

Digit(i) == <<"0", "1", "2", "3", "4", "5", "6", "7", "8", "9">>[i + 1]

StrikeInputs ==
    {Null, Strike(JsNum(10), Null), Strike(Null, JsStr("20")), Strike(JsStr(""), Null),
     Strike(JsStr("abc"), JsNum(10))}

EventInputs(maxMarkets) ==
    UNION {{[series_ticker |-> st,
             markets |-> [i \in 1..n |-> [ticker |-> <<"M", Digit(i)>>, custom_strike |-> ks[i]]]] :
                st \in {Null, Some(<<"S">>)}, ks \in [1..n -> StrikeInputs]} :
           n \in 0..maxMarkets}

SeatsInputs(maxMarkets) ==
    {[fetcher |-> "fetchExpectedSeatsProjection", apiBaseUrl |-> "/api/kalshi",
      seriesTickerHint |-> hint, referenceTimestamps |-> ref, eventData |-> ev] :
        hint \in {Null, Some(<<"S">>)},
        ref \in {Null, Some(<<Second, 2 * Second>>)},
        ev \in EventInputs(maxMarkets)}

MarketPricesInputs ==
    {[fetcher |-> "fetchMarketPrices", apiBaseUrl |-> base, marketId |-> id,
      seriesTicker |-> st] :
        base \in ApiBaseUrls,
        id \in {<<"A", "-", "1">>, <<"A", "1">>, <<"-", "1">>},
        st \in {Null, Some(<<>>), Some(<<"S">>)}}

\* A candlestick priced in dollars at the end of period ts.
DollarStick(ts, str) ==
    Stick(Some(ts), Some(Field(DollarsOnly(str), DollarsOnly(str), DollarsOnly(str),
                               DollarsOnly(str))), Null, Some(3), Null)

CandlestickPayloads ==
    {[ticker |-> "", candlesticks |-> Null],
     [ticker |-> "", candlesticks |-> Some(<<DollarStick(1, "0.5000")>>)],
     [ticker |-> "", candlesticks |-> Some(<<DollarStick(1, "0.5000"), DollarStick(2, "0")>>)]}

\* What fetchJsonOrThrow settles with: the parsed body, or an error.
JsonFailure(message) == [ok |-> FALSE, message |-> message]
JsonBody(data) == [ok |-> TRUE, data |-> data]

CandlestickResponses ==
    {JsonFailure("Request failed for Kalshi candlesticks."),
     JsonFailure("Network error while fetching Kalshi candlesticks.")}
    \cup {JsonBody(d) : d \in CandlestickPayloads}

EventFailures == {"Request failed for Kalshi event markets."}

---------------------------------------------------------------------------
(* The two tasks.                                                          *)

InitFetch ==
    /\ pc = "ready"
    /\ input \in MarketPricesInputs \cup SeatsInputs(MaxMarkets)
    /\ output = Null
    /\ ChartMounted
    /\ NoFetch
    /\ NoQueries
    /\ ViewMounted

\* fetchMarketPrices called: it throws, or issues its request and awaits.
StartMarketPrices ==
    /\ pc = "ready"
    /\ input.fetcher = "fetchMarketPrices"
    /\ LET r == marketPricesRequest(input.apiBaseUrl, input.marketId, input.seriesTicker)
       IN  /\ requests' = IF IsNull(r.request) THEN requests
                          ELSE Append(requests, Get(r.request))
           /\ IF ~IsNull(r.error)
              THEN pc' = "settled" /\ output' = Rejected(Get(r.error))
              ELSE pc' = "awaitCandlesticks" /\ output' = Null
    /\ UNCHANGED <<input, candleResults, chartVars, queryVars, viewVars>>

\* fetchJsonOrThrow settles and fetchMarketPrices returns normalizeCandles
\* of the body, or fails with fetchJsonOrThrow's error.
MarketPricesSettles(response) ==
    /\ pc = "awaitCandlesticks"
    /\ pc' = "settled"
    /\ output' = IF response.ok
                 THEN Fulfilled(normalizeCandles(response.data, input.marketId))
                 ELSE Rejected(response.message)
    /\ UNCHANGED <<input, fetchVars, chartVars, queryVars, viewVars>>

\* fetchExpectedSeatsProjection called: it requests the event and awaits.
StartSeats ==
    /\ pc = "ready"
    /\ input.fetcher = "fetchExpectedSeatsProjection"
    /\ requests' = Append(requests, [label |-> "Kalshi event markets",
                                     series |-> Null, market |-> <<>>])
    /\ pc' = "awaitEvent"
    /\ UNCHANGED <<input, output, candleResults, chartVars, queryVars, viewVars>>

\* The event request fails, and with it the projection.
EventFails(message) ==
    /\ pc = "awaitEvent"
    /\ pc' = "settled"
    /\ output' = Rejected(message)
    /\ UNCHANGED <<input, fetchVars, chartVars, queryVars, viewVars>>

\* The event arrives (lines 751-774): the series ticker is resolved, the
\* seat markets are selected, and one fetchMarketPrices per seat market is
\* called, each running to its await, before Promise.all is awaited.
EventArrives ==
    /\ pc = "awaitEvent"
    /\ LET eventData == input.eventData
           resolvedSeriesTicker == IF Truthy(input.seriesTickerHint)
                                   THEN input.seriesTickerHint
                                   ELSE eventData.series_ticker
           seatMarkets == seatMarketsOf(eventData.markets)
           calls == [i \in DOMAIN seatMarkets |->
                        marketPricesRequest(input.apiBaseUrl, seatMarkets[i].ticker,
                                            resolvedSeriesTicker)]
       IN  IF ~Truthy(resolvedSeriesTicker)
           THEN /\ pc' = "settled"
                /\ output' = Rejected(MissingSeriesTickerError)
                /\ UNCHANGED fetchVars
           ELSE IF Len(seatMarkets) = 0
           THEN /\ pc' = "settled"
                /\ output' = Rejected(NoSeatMarketsError)
                /\ UNCHANGED fetchVars
           ELSE /\ pc' = "awaitAll"
                /\ output' = Null
                /\ requests' = requests \o [i \in DOMAIN calls |-> Get(calls[i].request)]
                /\ candleResults' = [i \in DOMAIN seatMarkets |->
                                        [ticker |-> seatMarkets[i].ticker,
                                         seats |-> seatMarkets[i].seats,
                                         state |-> "pending", candles |-> <<>>]]
    /\ UNCHANGED <<input, chartVars, queryVars, viewVars>>

\* One sub-fetch settles, in any order and also after Promise.all has
\* rejected; the projection's promise settles once.
SubFetchSettles(i, response) ==
    /\ pc \in {"awaitAll", "settled"}
    /\ i \in DOMAIN candleResults
    /\ candleResults[i].state = "pending"
    /\ candleResults' =
          [candleResults EXCEPT ![i] =
              IF response.ok
              THEN [@ EXCEPT !.state = "fulfilled",
                             !.candles = normalizeCandles(response.data,
                                                          candleResults[i].ticker).candles]
              ELSE [@ EXCEPT !.state = "rejected"]]
    /\ output' = IF ~IsNull(output) THEN output
                 ELSE promiseAll(candleResults',
                                 IF response.ok THEN "" ELSE response.message,
                                 input.referenceTimestamps)
    /\ pc' = IF IsNull(output') THEN "awaitAll" ELSE "settled"
    /\ UNCHANGED <<input, requests, chartVars, queryVars, viewVars>>

NextFetch ==
    \/ StartMarketPrices
    \/ \E response \in CandlestickResponses : MarketPricesSettles(response)
    \/ StartSeats
    \/ \E message \in EventFailures : EventFails(message)
    \/ EventArrives
    \/ \E i \in 1..(MaxMarkets + 1), response \in CandlestickResponses :
          SubFetchSettles(i, response)

SpecFetch == InitFetch /\ [][NextFetch]_vars

---------------------------------------------------------------------------
(* Properties of the tasks (checked under SpecFetch).                      *)

IsSeatsTask == input.fetcher = "fetchExpectedSeatsProjection"

\* The event has arrived and a series ticker was resolved, so the seat
\* markets have been selected.
SeatMarketsSelected ==
    /\ IsSeatsTask
    /\ pc \in {"awaitAll", "settled"}
    /\ ~(IsRejected(output)
         /\ Get(output).message \in EventFailures \cup {MissingSeriesTickerError})

\* The seat threshold of an event market: the value under 'Seats', or with
\* none there the value under 'seats'; Null when the market has neither.
Threshold(m) ==
    IF IsNull(m.custom_strike) THEN Null
    ELSE IF ~IsNull(Get(m.custom_strike).Seats) THEN Get(m.custom_strike).Seats
    ELSE Get(m.custom_strike).seats

ParsesFinite(m) == ~IsNull(Threshold(m)) /\ NumberOfStrike(Get(Threshold(m))).finite

\* C12: the seat projection keeps exactly the event markets whose seat
\* threshold (custom_strike 'Seats', else 'seats') parses to a finite
\* number, each with that number of seats, discards every other market,
\* and is rejected with the no-seat-markets error, producing no points,
\* exactly when no market qualifies.
C12_KeepsMarketsWithFiniteSeats ==
    SeatMarketsSelected =>
        LET markets == input.eventData.markets
            qualifying == {i \in DOMAIN markets : ParsesFinite(markets[i])}
        IN  /\ Len(candleResults) = Cardinality(qualifying)
            /\ {candleResults[k].ticker : k \in DOMAIN candleResults}
                  = {markets[i].ticker : i \in qualifying}
            /\ \A k \in DOMAIN candleResults : \E i \in qualifying :
                  /\ markets[i].ticker = candleResults[k].ticker
                  /\ NumberOfStrike(Get(Threshold(markets[i]))).value = candleResults[k].seats
            /\ qualifying = {} <=> output = Rejected(NoSeatMarketsError)

\* An event of two markets: the first has a non-numeric 'Seats' and is
\* discarded, the second has seats "20" and is the only one fetched.
C12_Witness ==
    /\ IsSeatsTask
    /\ pc = "awaitAll"
    /\ Len(input.eventData.markets) = 2
    /\ input.eventData.markets[1].custom_strike = Strike(JsStr("abc"), JsNum(10))
    /\ input.eventData.markets[2].custom_strike = Strike(Null, JsStr("20"))
    /\ Len(candleResults) = 1
    /\ candleResults[1].ticker = <<"M", "2">>
    /\ candleResults[1].seats = 20

IsConfigurationError(o) ==
    /\ IsRejected(o)
    /\ Get(o).message \in {MissingSeriesError, MissingSeriesTickerError, NoSeatMarketsError}

\* C13 as stated: a configuration error is raised before the fetch has
\* issued any network request.
C13_ConfigErrorsBeforeAnyRequest ==
    IsConfigurationError(output) => requests = <<>>

\* C13: fetchMarketPrices raises its missing-series error before it has
\* issued any request; the seat projection raises its two configuration
\* errors after its event request, the only request it has issued, and
\* before any price-history request.
C13_ConfigErrorsBeforePriceRequests ==
    IsConfigurationError(output) =>
        IF IsSeatsTask
        THEN /\ Len(requests) = 1
             /\ requests[1].label = "Kalshi event markets"
             /\ candleResults = <<>>
        ELSE requests = <<>>

\* The event held no market with a seat threshold: the projection failed
\* with one request made, the event's.
C13_Witness ==
    /\ IsSeatsTask
    /\ pc = "settled"
    /\ output = Rejected(NoSeatMarketsError)
    /\ Len(input.eventData.markets) = 1
    /\ Len(requests) = 1

\* C14: the seat projection issues one price-history request per
\* qualifying market before it waits for any of them; it is fulfilled only
\* once every sub-fetch has succeeded, with the series over all of them;
\* and once a sub-fetch has failed, in whatever order they settle, it is
\* rejected and produces no points.
C14_AllOrNothingFanOut ==
    (IsSeatsTask /\ candleResults # <<>>) =>
        /\ Len(requests) = 1 + Len(candleResults)
        /\ \A i \in DOMAIN candleResults :
              /\ requests[1 + i].label = "Kalshi candlesticks"
              /\ requests[1 + i].market = candleResults[i].ticker
        /\ IsFulfilled(output) =>
              /\ \A i \in DOMAIN candleResults : candleResults[i].state = "fulfilled"
              /\ Get(output).value
                    = expectedSeatsPoints(candleResults, input.referenceTimestamps)
        /\ (\E i \in DOMAIN candleResults : candleResults[i].state = "rejected") =>
              IsRejected(output)
        /\ (\A i \in DOMAIN candleResults : candleResults[i].state = "fulfilled") =>
              IsFulfilled(output)

\* Two sub-fetches: the second succeeded with candles, the first failed,
\* and the projection is rejected.
C14_Witness ==
    /\ IsSeatsTask
    /\ Len(candleResults) = 2
    /\ candleResults[1].state = "rejected"
    /\ candleResults[2].state = "fulfilled"
    /\ Len(candleResults[2].candles) = 2
    /\ IsRejected(output)

---------------------------------------------------------------------------
(* The approval aggregator (lines 803-855), from the parsed body on.       *)
(* A date string is an instant, given by its time value, or not a date, or *)
(* empty; an answer's percent is a JSON number or undefined (Null).        *)

IsoDate(time) == [empty |-> FALSE, iso |-> TRUE, time |-> time]
NotADate == [empty |-> FALSE, iso |-> FALSE, time |-> 0]
EmptyDate == [empty |-> TRUE, iso |-> FALSE, time |-> 0]

\* a date string that is neither undefined nor ""
HasText(dateString) == ~IsNull(dateString) /\ ~Get(dateString).empty

\* new Date(dateString).getTime()
getTime(dateString) == IF dateString.iso THEN Num(dateString.time) ELSE NaN

\* (a.choice || '').toLowerCase() on the choices the model draws
LowerChoice(choice) ==
    CASE choice = "Approve"    -> "approve"
      [] choice = "Disapprove" -> "disapprove"
      [] OTHER                 -> choice

\* (poll.answers || []).find((a) => ... === 'approve'): Null when none
RECURSIVE findApprove(_)
findApprove(answers) ==
    IF answers = <<>> THEN Null
    ELSE IF LowerChoice(Head(answers).choice) = "approve" THEN Some(Head(answers))
    ELSE findApprove(Tail(answers))

\* The body of the .map over data.polls: the point of a poll, or Null.
pollPoint(poll, window) ==
    LET dateString == IF HasText(poll.date) THEN poll.date ELSE poll.end_date
    IN  IF ~HasText(dateString) THEN Null
        ELSE LET ts == getTime(Get(dateString))
                 approve == findApprove(poll.answers)
             IN  IF ~ts.finite \/ ts.value < window.startMs \/ ts.value > window.endMs
                 THEN Null
                 ELSE IF IsNull(approve) \/ IsNull(Get(approve).percent) THEN Null
                 ELSE Some([timestamp |-> ts.value, value |-> Get(Get(approve).percent)])

\* Array.prototype.sort((a, b) => a.timestamp - b.timestamp): stable.
RECURSIVE InsertByTimestamp(_, _)
InsertByTimestamp(sorted, p) ==
    IF sorted = <<>> THEN <<p>>
    ELSE IF sorted[Len(sorted)].timestamp <= p.timestamp THEN Append(sorted, p)
    ELSE Append(InsertByTimestamp(SubSeq(sorted, 1, Len(sorted) - 1), p),
                sorted[Len(sorted)])

RECURSIVE SortByTimestamp(_)
SortByTimestamp(ps) ==
    IF ps = <<>> THEN <<>>
    ELSE InsertByTimestamp(SortByTimestamp(SubSeq(ps, 1, Len(ps) - 1)), ps[Len(ps)])

rawPoints(polls, window) ==
    LET mapped == [i \in DOMAIN polls |-> pollPoint(polls[i], window)]
        kept == SelectSeq(mapped, NotNull)
    IN  SortByTimestamp([i \in DOMAIN kept |-> Get(kept[i])])

\* Date.UTC(d.getUTCFullYear(), d.getUTCMonth(), d.getUTCDate())
dayTsOf(timestamp) == (timestamp \div Day) * Day

\* The loop filling dayBuckets, a Map kept in insertion order.
RECURSIVE fillBuckets(_, _, _)
fillBuckets(raw, i, buckets) ==
    IF i > Len(raw) THEN buckets
    ELSE LET dayTs == dayTsOf(raw[i].timestamp)
         IN  IF \E k \in DOMAIN buckets : buckets[k].dayTs = dayTs
             THEN fillBuckets(raw, i + 1,
                      [k \in DOMAIN buckets |->
                          IF buckets[k].dayTs = dayTs
                          THEN [dayTs |-> dayTs, sum |-> buckets[k].sum + raw[i].value,
                                count |-> buckets[k].count + 1]
                          ELSE buckets[k]])
             ELSE fillBuckets(raw, i + 1,
                      Append(buckets, [dayTs |-> dayTs, sum |-> raw[i].value, count |-> 1]))

\* The value of a day without the division by the count.
dayValue_Sum(bucket) == Rat(bucket.sum, 1)

\* bucket.sum / bucket.count
dayValue(bucket) == Rat(bucket.sum, bucket.count)

dailyPoints(polls, window) ==
    LET buckets == fillBuckets(rawPoints(polls, window), 1, <<>>)
    IN  SortByTimestamp([k \in DOMAIN buckets |->
                            [timestamp |-> buckets[k].dayTs, value |-> dayValue(buckets[k])]])

alpha == Rat(35, 100)

Clamp0To100(x) == RatMax(Rat(0, 1), RatMin(Rat(100, 1), x))

\* The smoothing loop carrying the clamped value instead of ema.
RECURSIVE emaLoop_ClampCarried(_, _, _)
emaLoop_ClampCarried(daily, i, ema) ==
    IF i > Len(daily) THEN <<>>
    ELSE LET next == Clamp0To100(RatAdd(RatMul(alpha, daily[i].value),
                                        RatMul(RatAdd(Rat(1, 1), Rat(-35, 100)), ema)))
         IN  <<[timestamp |-> daily[i].timestamp, value |-> next]>>
             \o emaLoop_ClampCarried(daily, i + 1, next)

\* for (const p of daily) { ema = alpha * p.value + (1 - alpha) * ema; ... }
RECURSIVE emaLoop(_, _, _)
emaLoop(daily, i, ema) ==
    IF i > Len(daily) THEN <<>>
    ELSE LET next == RatAdd(RatMul(alpha, daily[i].value),
                            RatMul(RatAdd(Rat(1, 1), Rat(-35, 100)), ema))
         IN  <<[timestamp |-> daily[i].timestamp, value |-> Clamp0To100(next)]>>
             \o emaLoop(daily, i + 1, next)

\* The smoothing applied from two daily points on.
smoothDaily_FromTwoPoints(daily) ==
    IF Len(daily) <= 1 THEN daily ELSE emaLoop(daily, 1, daily[1].value)

\* if (daily.length <= 2) return daily; ... return smoothed;
smoothDaily(daily) ==
    IF Len(daily) <= 2 THEN daily ELSE emaLoop(daily, 1, daily[1].value)

\* fetchTrumpApprovalProjection once the polls are there.
approvalProjection(polls, timeframe, customRange, now) ==
    smoothDaily(dailyPoints(polls, getTimeWindow(timeframe, customRange, now)))

---------------------------------------------------------------------------
(* Inputs of the aggregator.  Polls for the bucketing: on day 0 or day 1   *)
(* (after `now` for the latest), 40, 42 or 44 percent, or lacking a date,  *)
(* an approve answer or its percent, under the ALL and the 1D window.      *)
(* Polls for the smoothing: at midnight of one of the first MaxPolls days, *)
(* 50, 60 or 120 percent, under the ALL window.                            *)

MaxPolls == 3           \* most polls in a response

Answer(choice, percent) == [choice |-> choice, percent |-> percent]

Poll(date, end_date, answers) == [date |-> date, end_date |-> end_date, answers |-> answers]

StandardPoll(time, percent) ==
    Poll(Some(IsoDate(time)), Null,
         <<Answer("Disapprove", Some(50)), Answer("Approve", Some(percent))>>)

OddPolls ==
    {Poll(Null, Some(IsoDate(Day)), <<Answer("approve", Some(42))>>),
     Poll(Some(EmptyDate), Null, <<Answer("approve", Some(42))>>),
     Poll(Some(NotADate), Null, <<Answer("approve", Some(42))>>),
     Poll(Some(IsoDate(Day)), Null, <<Answer("Disapprove", Some(50))>>),
     Poll(Some(IsoDate(Day)), Null, <<Answer("approve", Null)>>)}

BucketingPolls ==
    {StandardPoll(t, p) : t \in {0, Day \div 2, Day, Day + 2 * Hour}, p \in {40, 42}}
    \cup {StandardPoll(Day \div 2, 44)}
    \cup OddPolls

SmoothingPolls(maxPolls) ==
    {StandardPoll(k * Day, p) : k \in 0..(maxPolls - 1), p \in {50, 60, 120}}

ApprovalInputs(maxPolls) ==
    {[polls |-> polls, timeframe |-> tf, now |-> Day + Hour] :
        polls \in SeqsUpTo(BucketingPolls, maxPolls), tf \in {"ALL", "1D"}}
    \cup {[polls |-> polls, timeframe |-> "ALL", now |-> maxPolls * Day] :
             polls \in SeqsUpTo(SmoothingPolls(maxPolls), maxPolls)}

InitApproval ==
    /\ pc = "ready"
    /\ input \in ApprovalInputs(MaxPolls)
    /\ output = Null
    /\ ChartMounted
    /\ NoFetch
    /\ NoQueries
    /\ ViewMounted

\* The daily series, as it stands before the smoothing.
CallDailyPoints ==
    /\ pc = "ready"
    /\ pc' = "dailyPoints"
    /\ output' = dailyPoints(input.polls, getTimeWindow(input.timeframe, Null, input.now))
    /\ UNCHANGED <<input, chartVars, fetchVars, queryVars, viewVars>>

CallApprovalProjection ==
    /\ pc = "ready"
    /\ pc' = "fetchTrumpApprovalProjection"
    /\ output' = approvalProjection(input.polls, input.timeframe, Null, input.now)
    /\ UNCHANGED <<input, chartVars, fetchVars, queryVars, viewVars>>

NextApproval == CallDailyPoints \/ CallApprovalProjection

SpecApproval == InitApproval /\ [][NextApproval]_vars

---------------------------------------------------------------------------
(* Properties of the approval aggregator (checked under SpecApproval).     *)

ApprovalWindow == getTimeWindow(input.timeframe, Null, input.now)

\* The polls that count: in the window and with a valid approve percentage.
CountedPolls ==
    {i \in DOMAIN input.polls : ~IsNull(pollPoint(input.polls[i], ApprovalWindow))}

PollTime(i) == Get(pollPoint(input.polls[i], ApprovalWindow)).timestamp
PollPercent(i) == Get(pollPoint(input.polls[i], ApprovalWindow)).value

\* UTC midnight of the day an instant falls on, among the days of the inputs.
MidnightBefore(t) == CHOOSE d \in {k * Day : k \in 0..MaxPolls} : d <= t /\ t < d + Day

PollsOfDay(d) == {i \in CountedPolls : MidnightBefore(PollTime(i)) = d}

RECURSIVE SumOfPercents(_)
SumOfPercents(polls) ==
    IF polls = {} THEN 0
    ELSE LET i == CHOOSE x \in polls : TRUE
         IN  PollPercent(i) + SumOfPercents(polls \ {i})

\* C15: the daily series has exactly one point per UTC calendar day on
\* which at least one in-window poll with a valid approve percentage
\* falls; the point's timestamp is the day's UTC midnight, its value is
\* the arithmetic mean of that day's approve percentages, and the
\* timestamps increase strictly.
C15_OneMeanPointPerDay ==
    pc = "dailyPoints" =>
        LET days == {MidnightBefore(PollTime(i)) : i \in CountedPolls}
        IN  /\ Len(output) = Cardinality(days)
            /\ IsStrictlyAscending(Timestamps(output))
            /\ \A k \in DOMAIN output :
                  /\ output[k].timestamp \in days
                  /\ output[k].value.den > 0
                  /\ output[k].value.num * Cardinality(PollsOfDay(output[k].timestamp))
                        = SumOfPercents(PollsOfDay(output[k].timestamp))
                          * output[k].value.den

\* Three polls on day 0 with 40, 42 and 44 percent give one point, 42 at
\* the day's midnight.
C15_Witness ==
    /\ pc = "dailyPoints"
    /\ input.polls = <<StandardPoll(Day \div 2, 40), StandardPoll(0, 42),
                       StandardPoll(Day \div 2, 44)>>
    /\ output = <<[timestamp |-> 0, value |-> [num |-> 42, den |-> 1]]>>

\* e_k of the claim: e_0 = 0.35 d_0 + 0.65 d_0, e_k = 0.35 d_k + 0.65 e_(k-1)
\* (k counted from 1 here).
RECURSIVE Ema(_, _)
Ema(daily, k) ==
    RatAdd(RatMul(Rat(35, 100), daily[k].value),
           RatMul(Rat(65, 100), IF k = 1 THEN daily[1].value ELSE Ema(daily, k - 1)))

ClampedTo0And100(x) ==
    IF x.num < 0 THEN Rat(0, 1) ELSE IF x.num > 100 * x.den THEN Rat(100, 1) ELSE x

ApprovalDaily == dailyPoints(input.polls, ApprovalWindow)

\* C16: with more than 2 daily points d the output has the timestamps of d
\* and the values e_k clamped to [0, 100]; with 2 or fewer daily points the
\* output is the daily sequence itself.
C16_SmoothedAboveTwoPoints ==
    pc = "fetchTrumpApprovalProjection" =>
        IF Len(ApprovalDaily) > 2
        THEN /\ Timestamps(output) = Timestamps(ApprovalDaily)
             /\ \A k \in DOMAIN output :
                   output[k].value = ClampedTo0And100(Ema(ApprovalDaily, k))
        ELSE output = ApprovalDaily

\* Daily values 120, 50, 60: the first output is clamped to 100 while e_0
\* stays 120, so the second is 0.35 * 50 + 0.65 * 120 = 95.5.
C16_Witness ==
    /\ pc = "fetchTrumpApprovalProjection"
    /\ input.polls = <<StandardPoll(0, 120), StandardPoll(Day, 50), StandardPoll(2 * Day, 60)>>
    /\ Len(output) = 3
    /\ output[1].value = [num |-> 100, den |-> 1]
    /\ output[2].value = [num |-> 191, den |-> 2]

ValuesOf(points) == [k \in DOMAIN points |-> points[k].value]

\* C17 as stated: for poll input whose daily values are exactly [50, 60]
\* the approval series has the values 50 and 53.5.
C17_TwoDailyPointsSmoothed ==
    (pc = "fetchTrumpApprovalProjection"
       /\ ValuesOf(ApprovalDaily) = <<Rat(50, 1), Rat(60, 1)>>) =>
        ValuesOf(output) = <<Rat(50, 1), Rat(107, 2)>>

\* C17: for poll input whose daily values are exactly [50, 60] the approval
\* series has the raw values 50 and 60; when the daily values are 50, 60
\* and a third one, the smoothing applies and the first two values of the
\* series are 50 and 53.5.
C17_TwoDailyPointsRaw ==
    pc = "fetchTrumpApprovalProjection" =>
        /\ ValuesOf(ApprovalDaily) = <<Rat(50, 1), Rat(60, 1)>> =>
              ValuesOf(output) = <<Rat(50, 1), Rat(60, 1)>>
        /\ (/\ Len(ApprovalDaily) = 3
            /\ SubSeq(ValuesOf(ApprovalDaily), 1, 2) = <<Rat(50, 1), Rat(60, 1)>>) =>
              SubSeq(ValuesOf(output), 1, 2) = <<Rat(50, 1), Rat(107, 2)>>

\* One poll of 50 percent on day 0 and one of 60 on day 1: the series is
\* 50, 60.
C17_Witness ==
    /\ pc = "fetchTrumpApprovalProjection"
    /\ input.polls = <<StandardPoll(0, 50), StandardPoll(Day, 60)>>
    /\ ValuesOf(output) = <<[num |-> 50, den |-> 1], [num |-> 60, den |-> 1]>>

---------------------------------------------------------------------------
(* fetchJsonOrThrow (lines 523-562) as a function of what the transport    *)
(* does: fetch() rejects, or resolves with a response whose body can be    *)
(* read or whose body stream fails while it is read.  A body is a sequence *)
(* of characters; an error is the record of the parts of its message.      *)

SnippetLength == 300

\* body.slice(0, n)
Slice(str, n) == SubSeq(str, 1, Min(n, Len(str)))

Repeat(ch, n) == [i \in 1..n |-> ch]

EmptyObjectText == <<"{", "}">>
PaddedArrayText == <<"[">> \o Repeat(" ", SnippetLength - 1) \o <<"]">>

\* JSON.parse on the bodies the model draws: the two JSON texts parse, any
\* other body throws (Null).
JsonParse(raw) ==
    CASE raw = EmptyObjectText -> Some([type |-> "object"])
      [] raw = PaddedArrayText -> Some([type |-> "array"])
      [] OTHER                 -> Null

\* response.ok
IsOkStatus(status) == status >= 200 /\ status <= 299

ErrorOf(prefix, label, url, status, contentType, response, details) ==
    [prefix |-> prefix, label |-> label, url |-> url, status |-> status,
     contentType |-> contentType, response |-> response, details |-> details]

\* `body ? `\nResponse: ${body.slice(0, 300)}` : ''`
SnippetOf(body) == IF body = <<>> THEN Null ELSE Some(Slice(body, SnippetLength))

fetchJsonOrThrow(url, requestLabel, transport) ==
    IF ~transport.responded
    THEN Rejected(ErrorOf("Network error while fetching", requestLabel, Some(url), Null,
                          Null, Null, Some(transport.failure)))
    ELSE IF ~IsOkStatus(transport.status)
    THEN LET body == IF transport.bodyReadable THEN transport.body ELSE <<>>
         IN  Rejected(ErrorOf("Request failed for", requestLabel, Some(url),
                              Some(transport.status), Null, SnippetOf(body), Null))
    ELSE IF ~transport.bodyReadable
    \* `await response.text()` outside any try: its error propagates as it is
    THEN Rejected(ErrorOf(transport.failure, "", Null, Null, Null, Null, Null))
    ELSE LET raw == transport.body
             parsed == JsonParse(raw)
         IN  IF ~IsNull(parsed) THEN Fulfilled(Get(parsed))
             ELSE Rejected(ErrorOf("Invalid JSON while fetching", requestLabel, Some(url),
                                   Some(transport.status), transport.contentType,
                                   SnippetOf(raw), Null))

\* Inputs: no response; or a response with a 2xx or another status, a body
\* that is empty, JSON, not JSON, exactly or more than SnippetLength long,
\* read in full or failing while read.
Bodies ==
    {<<>>, EmptyObjectText, PaddedArrayText, <<"<", "h", "t", "m", "l", ">">>,
     Repeat("x", SnippetLength), Repeat("x", SnippetLength + 1)}

TransportInputs ==
    {[responded |-> FALSE, failure |-> "Failed to fetch", status |-> 0, body |-> <<>>,
      bodyReadable |-> FALSE, contentType |-> Null]}
    \cup {[responded |-> TRUE, failure |-> "network error", status |-> st, body |-> b,
           bodyReadable |-> r, contentType |-> ct] :
              st \in {200, 204, 404, 500}, b \in Bodies, r \in BOOLEAN,
              ct \in {Null, Some("text/html")}}

InitFetchJson ==
    /\ pc = "ready"
    /\ input \in [url : {"https://api.example/events/E"}, requestLabel : {"Kalshi event markets"},
                  transport : TransportInputs]
    /\ output = Null
    /\ ChartMounted
    /\ NoFetch
    /\ NoQueries
    /\ ViewMounted

CallFetchJsonOrThrow ==
    /\ pc = "ready"
    /\ pc' = "fetchJsonOrThrow"
    /\ output' = fetchJsonOrThrow(input.url, input.requestLabel, input.transport)
    /\ UNCHANGED <<input, chartVars, fetchVars, queryVars, viewVars>>

NextFetchJson == CallFetchJsonOrThrow

SpecFetchJson == InitFetchJson /\ [][NextFetchJson]_vars

---------------------------------------------------------------------------
(* Properties of fetchJsonOrThrow (checked under SpecFetchJson).           *)

FailureKinds ==
    {"Network error while fetching", "Request failed for", "Invalid JSON while fetching"}

IsFailureOfKind(o, kind) ==
    /\ IsRejected(o)
    /\ Get(o).message.prefix = kind
    /\ Get(o).message.url = Some(input.url)
    /\ \/ IsNull(Get(o).message.response)
       \/ /\ Len(Get(Get(o).message.response)) <= SnippetLength
          /\ Get(Get(o).message.response)
                = SubSeq(input.transport.body, 1, Len(Get(Get(o).message.response)))

\* C18: fetchJsonOrThrow ends in exactly one of four outcomes: a
\* network-error failure when no response is obtained, a request-failed
\* failure when the status is not 2xx, whatever the body, an invalid-JSON
\* failure when the status is 2xx and the body does not parse, or success
\* with the parsed body; each failure names the URL and carries at most the
\* first 300 characters of the body.
C18_FourOutcomes ==
    pc = "fetchJsonOrThrow" =>
        LET t == input.transport
        IN  /\ ~t.responded => IsFailureOfKind(output, "Network error while fetching")
            /\ (t.responded /\ ~IsOkStatus(t.status)) =>
                  IsFailureOfKind(output, "Request failed for")
            /\ (t.responded /\ IsOkStatus(t.status) /\ t.bodyReadable
                  /\ IsNull(JsonParse(t.body))) =>
                  IsFailureOfKind(output, "Invalid JSON while fetching")
            /\ (t.responded /\ IsOkStatus(t.status) /\ t.bodyReadable
                  /\ ~IsNull(JsonParse(t.body))) =>
                  output = Fulfilled(Get(JsonParse(t.body)))
            /\ \/ IsFulfilled(output)
               \/ \E kind \in FailureKinds : IsFailureOfKind(output, kind)

---------------------------------------------------------------------------
(* The queries of ChartContent (lines 928-1086) as the query client runs   *)
(* them.  Every query is declared with `retry: 1` and without an option    *)
(* that throws its error into the render; the client counts the failures   *)
(* of a fetch cycle, retries while the count is below `retry`, and then    *)
(* puts the query into its error state, keeping the data it had.  A cycle  *)
(* starts when a query becomes enabled, when its key changes and when it   *)
(* is refetched.                                                           *)

QuerySeries ==
    {"market-prices", "projection-prices", "combo-prices", "controls-prices",
     "trump-approval", "fred-sp500", "fred-unrate", "custom-compare", "political-headlines"}

\* The queries enabled from the mount on: `enabled` of the primary query is
\* true for the props given, and the headlines query has no `enabled`.
MountedQueries == {"market-prices", "political-headlines"}

\* The queries with a refetchInterval.
PolledQueries == {"market-prices", "political-headlines"}

retry == 1

MaxQueryEvents == 6     \* events (toggles, attempts, timers) the queries go through

\* The client's test after a failed attempt, failureCount being the
\* failures before it: with the client's default of 3 retries.
shouldRetry_ClientDefault(failureCount) == failureCount < 3

\* retry: 1
shouldRetry(failureCount) == failureCount < retry

\* An error thrown into the render, as `throwOnError: true` would do.
boundaryAfterQueryError_Thrown(boundary, message) == Some(message)

\* What a query's error does to ChartErrorBoundary: nothing, the error is
\* kept in the query's result (isError, error).
boundaryAfterQueryError(boundary, message) == boundary

Disabled ==
    [enabled |-> FALSE, status |-> "pending", fetching |-> FALSE, waiting |-> FALSE,
     failureCount |-> 0, runs |-> 0, data |-> Null]

\* A fetch cycle starting: the fetch function runs; a query without data
\* shows as pending.
CycleStarted(q) ==
    [q EXCEPT !.enabled = TRUE, !.fetching = TRUE, !.waiting = FALSE,
              !.failureCount = 0, !.runs = 1,
              !.status = IF IsNull(q.data) THEN "pending" ELSE q.status]

\* The length of the primary candles, part of the projection query's key.
PrimaryLengths == {1, 2}

InitQueries ==
    /\ NoCall
    /\ ChartMounted
    /\ NoFetch
    /\ queryState = [s \in QuerySeries |->
                        IF s \in MountedQueries THEN CycleStarted(Disabled) ELSE Disabled]
    /\ errorMessage = Null
    /\ ViewMounted

QueryEvent ==
    /\ steps < MaxQueryEvents
    /\ steps' = steps + 1
    /\ UNCHANGED <<query, seriesQueries, show, customCompareMarkets, customCompareQueries,
                   compareTickerInput, compareInputError, chartData>>
    /\ UNCHANGED <<callVars, fetchVars, viewVars>>

\* An overlay is switched on (or a comparison market added): its query
\* becomes enabled and its first cycle starts.
EnableQuery(s) ==
    /\ QueryEvent
    /\ ~queryState[s].enabled
    /\ queryState' = [queryState EXCEPT ![s] = CycleStarted(@)]
    /\ UNCHANGED errorMessage

\* The fetch function's promise rejects.
AttemptFails(s) ==
    /\ QueryEvent
    /\ queryState[s].fetching /\ ~queryState[s].waiting
    /\ LET q == queryState[s]
       IN  IF shouldRetry(q.failureCount)
           THEN /\ queryState' = [queryState EXCEPT ![s] =
                                     [q EXCEPT !.failureCount = q.failureCount + 1,
                                               !.waiting = TRUE]]
                /\ UNCHANGED errorMessage
           ELSE /\ queryState' = [queryState EXCEPT ![s] =
                                     [q EXCEPT !.failureCount = q.failureCount + 1,
                                               !.fetching = FALSE, !.status = "error"]]
                /\ errorMessage' = boundaryAfterQueryError(errorMessage, s)

\* The retry delay is over and the fetch function runs again.
RetryRuns(s) ==
    /\ QueryEvent
    /\ queryState[s].fetching /\ queryState[s].waiting
    /\ queryState' = [queryState EXCEPT ![s] =
                         [@ EXCEPT !.waiting = FALSE, !.runs = @ + 1]]
    /\ UNCHANGED errorMessage

\* The fetch function's promise resolves.  The number of primary candles
\* is part of the projection query's key (line 956): when it changes, an
\* enabled projection query starts over under its new key.
AttemptSucceeds(s, length) ==
    /\ QueryEvent
    /\ queryState[s].fetching /\ ~queryState[s].waiting
    /\ LET settled == [queryState[s] EXCEPT !.fetching = FALSE, !.status = "success",
                                            !.data = Some(length)]
           keyChanged == /\ s = "market-prices"
                         /\ queryState[s].data # Some(length)
                         /\ queryState["projection-prices"].enabled
       IN  queryState' =
              [t \in QuerySeries |->
                  IF t = s THEN settled
                  ELSE IF t = "projection-prices" /\ keyChanged
                  THEN CycleStarted([queryState[t] EXCEPT !.data = Null])
                  ELSE queryState[t]]
    /\ UNCHANGED errorMessage

\* refetchInterval fires for a settled query (lines 941, 1084).
Refetch(s) ==
    /\ QueryEvent
    /\ s \in PolledQueries
    /\ queryState[s].enabled /\ ~queryState[s].fetching
    /\ queryState' = [queryState EXCEPT ![s] = CycleStarted(@)]
    /\ UNCHANGED errorMessage

NextQueries ==
    \/ \E s \in QuerySeries : EnableQuery(s)
    \/ \E s \in QuerySeries : AttemptFails(s)
    \/ \E s \in QuerySeries : RetryRuns(s)
    \/ \E s \in QuerySeries, length \in PrimaryLengths : AttemptSucceeds(s, length)
    \/ \E s \in QuerySeries : Refetch(s)

SpecQueries == InitQueries /\ [][NextQueries]_vars

---------------------------------------------------------------------------
(* Properties of the queries (checked under SpecQueries).                  *)

\* C19: for every series query, a cycle that keeps failing runs the fetch
\* function exactly twice, the first attempt and one retry, before the
\* query enters its error state; no cycle runs it more than twice, and a
\* cycle whose first or second attempt succeeds ends in success.
C19_OneRetryThenError ==
    \A s \in QuerySeries :
        LET q == queryState[s]
        IN  /\ q.runs <= 2
            /\ (q.enabled /\ ~q.fetching) =>
                  /\ q.status \in {"success", "error"}
                  /\ q.status = "error" => (q.runs = 2 /\ q.failureCount = 2)
                  /\ q.status = "success" => q.failureCount = q.runs - 1

\* The projection query, switched on, failed twice and is in its error
\* state after two runs of its fetch function.
C19_Witness ==
    /\ queryState["projection-prices"].status = "error"
    /\ ~queryState["projection-prices"].fetching
    /\ queryState["projection-prices"].runs = 2
    /\ queryState["projection-prices"].failureCount = 2

---------------------------------------------------------------------------
(* The window and the sampling interval fetchMarketPrices requests in      *)
(* Kalshi mode (lines 698-715), and the custom range each caller passes.   *)

\* start_ts, end_ts and period_interval of the candlesticks request;
\* Math.floor(ms / 1000) is the floor of ticks by Second.
candlestickParams(timeframe, customRange, nowMs) ==
    LET config == TIMEFRAME_CONFIG[timeframe]
        custom == timeframe = "CUSTOM" /\ ~IsNull(customRange)
        startMs == IF custom THEN Get(customRange).startMs
                   ELSE nowMs - OrElse(config.startMs, 365 * 24 * 60 * 60 * Second)
        endMs == IF custom THEN Get(customRange).endMs ELSE nowMs
    IN  [start_ts |-> startMs \div Second,
         end_ts |-> endMs \div Second,
         period_interval |->
             IF custom THEN inferCustomPeriodInterval(Get(customRange).startMs,
                                                      Get(customRange).endMs)
             ELSE config.periodInterval]

\* The callers: the primary query (line 939), the projection query for a
\* single market (970-977), the combo and controls queries (995-1018) and
\* the custom compare queries (1066-1073) pass `customRangeApplied ??
\* undefined`; the seat projection's sub-fetches (771) pass no range.
MarketPricesCallers ==
    {"query", "projectionQuery", "comboQuery", "customCompareQueries",
     "fetchExpectedSeatsProjection"}

customRangeArgument(caller, applied) ==
    IF caller = "fetchExpectedSeatsProjection" THEN Null ELSE applied

\* Applied ranges are those the Apply handler lets through: start < end.
AppliedRangeInputs ==
    {Null} \cup {Some(r) : r \in {x \in RangeInputs : x.startMs < x.endMs}}

InitRequest ==
    /\ pc = "ready"
    /\ input \in [caller : MarketPricesCallers,
                  timeframe : Timeframes,
                  customRangeApplied : AppliedRangeInputs,
                  now : NowInputs]
    /\ output = Null
    /\ ChartMounted
    /\ NoFetch
    /\ NoQueries
    /\ ViewMounted

CallFetchMarketPrices ==
    /\ pc = "ready"
    /\ pc' = "fetchMarketPrices"
    /\ output' = candlestickParams(input.timeframe,
                                   customRangeArgument(input.caller, input.customRangeApplied),
                                   input.now)
    /\ UNCHANGED <<input, chartVars, fetchVars, queryVars, viewVars>>

NextRequest == CallFetchMarketPrices

SpecRequest == InitRequest /\ [][NextRequest]_vars

\* C27: for every caller, timeframe and applied custom range, the start_ts
\* and end_ts of the candlesticks request are the bounds of
\* getTimeWindow(timeframe, applied range) in whole seconds, and under
\* CUSTOM with an applied range the period_interval is
\* inferCustomPeriodInterval of that range.
C27_RequestFollowsResolver ==
    pc = "fetchMarketPrices" =>
        LET window == getTimeWindow(input.timeframe, input.customRangeApplied, input.now)
        IN  /\ output.start_ts = window.startMs \div Second
            /\ output.end_ts = window.endMs \div Second
            /\ (input.timeframe = "CUSTOM" /\ ~IsNull(input.customRangeApplied)) =>
                  output.period_interval =
                      inferCustomPeriodInterval(Get(input.customRangeApplied).startMs,
                                                Get(input.customRangeApplied).endMs)

---------------------------------------------------------------------------
(* The view state of ChartContent and the query cache (lines 909-1052,     *)
(* 2560-2710).  The query client keeps one cache entry per query key; a    *)
(* query shows the entry of its current key and starts a fetch when that   *)
(* entry does not exist yet.  A fetch runs with the values its query       *)
(* function closed over when it started, and its result goes to the entry  *)
(* of the key it was started under.  The retries of a failing cycle are    *)
(* one event here.  Props other than marketId and projectionEventTicker    *)
(* (the base URL, the overlays' market ids and endpoints) are set and do   *)
(* not change, so they are left out of the keys.                           *)

MaxViewEvents == 4      \* events (user actions, prop changes, responses) of the view

ViewSeries == ChartSeries \cup {"primary"}

MarketIds == {"MKT", "MKT2"}

\* Candle timestamps of a primary response: none, or one of two lists of
\* the same length.
PrimaryTimestampInputs == {<<>>, <<1>>, <<2>>}

\* new Date(draft).getTime() of the two drafts: NaN (Null) or an instant.
DraftInstants == {Null, Some(0), Some(Day)}

\* The timeframe buttons pressed: two with a lookback, and CUSTOM.
ViewTimeframes == {"7D", "30D", "CUSTOM"}

\* Date.now() in the default-range effect
ViewClock == {20 * Day}

\* customRangeApplied?.startMs ?? null, customRangeApplied?.endMs ?? null
rangeKey(range) ==
    IF IsNull(range) THEN <<Null, Null>>
    ELSE <<Some(Get(range).startMs), Some(Get(range).endMs)>>

\* The entry a query shows (Null: the cache has none for the key).
EntryOf(cache, s, key) == IF key \in DOMAIN cache[s] THEN Some(cache[s][key]) ELSE Null

primaryKey(p, tf, range) == <<"market-prices", p.marketId, tf>> \o rangeKey(range)

\* query.data?.candles, as timestamps (Null: undefined)
primaryCandles(cache, p, tf, range) ==
    LET e == EntryOf(cache, "primary", primaryKey(p, tf, range))
    IN  IF IsNull(e) \/ IsNull(Get(e).data) THEN Null ELSE Some(Get(Get(e).data).candles)

\* queryKey of each useQuery call (lines 929-937, 948-957, 993, 1009,
\* 1025-1031, 1039, 1047)
queryKeyOf(s, p, tf, range, cache) ==
    CASE s = "primary" -> primaryKey(p, tf, range)
      [] s = "projection" ->
            LET c == primaryCandles(cache, p, tf, range)
            IN  <<"projection-prices", tf, p.marketId, IF IsNull(c) THEN 0 ELSE Len(Get(c))>>
      [] s = "combo" -> <<"combo-prices", tf>>
      [] s = "controls" -> <<"controls-prices", tf>>
      [] s = "trumpApproval" -> <<"trump-approval", tf>> \o rangeKey(range)
      [] s = "sp500" -> <<"fred-sp500", tf>> \o rangeKey(range)
      [] s = "unemployment" -> <<"fred-unrate", tf>> \o rangeKey(range)

\* What each queryFn passes to its fetcher (lines 939, 959-977, 995-1002,
\* 1011-1018, 1032, 1040, 1048): "" and Null stand for a value the fetch
\* does not take.
fetchInputsOf(s, p, tf, range, cache) ==
    CASE s = "primary" ->
            [marketId |-> p.marketId, timeframe |-> tf, customRange |-> range,
             referenceTimestamps |-> Null]
      [] s = "projection" ->
            IF ~IsNull(p.projectionEventTicker)
            THEN [marketId |-> "", timeframe |-> tf, customRange |-> Null,
                  referenceTimestamps |-> primaryCandles(cache, p, tf, range)]
            ELSE [marketId |-> "", timeframe |-> tf, customRange |-> range,
                  referenceTimestamps |-> Null]
      [] OTHER ->
            [marketId |-> "", timeframe |-> tf, customRange |-> range,
             referenceTimestamps |-> Null]

\* `enabled` of each query, with the props set: the primary query always,
\* an overlay's query while its checkbox is on.
isEnabled(s, sh) == IF s = "primary" THEN TRUE ELSE sh[s]

\* The key each query observes (Null: the query is disabled).
observedKeys(cache, sh, p, tf, range) ==
    [s \in ViewSeries |->
        IF isEnabled(s, sh) THEN Some(queryKeyOf(s, p, tf, range, cache)) ELSE Null]

\* staleTime: 30_000 for the primary and the projection query (lines 940,
\* 983), the default of 0 for the others.
AlwaysStale == ChartSeries \ {"projection"}

\* One render.  An enabled query whose key has no entry gets one, with a
\* fetch in flight.  A query that comes to an entry it did not observe
\* before the render (`previous`) fetches again when the entry holds an
\* error and no data, or when its data is stale.  The primary query comes
\* first, the projection's key and timestamps being read from its result.
observe(cache, sh, p, tf, range, previous) ==
    LET started(c, s) ==
            LET key == queryKeyOf(s, p, tf, range, c)
                inFlight == Some(fetchInputsOf(s, p, tf, range, c))
            IN  IF ~isEnabled(s, sh) THEN c[s]
                ELSE IF key \notin DOMAIN c[s]
                THEN [k \in DOMAIN c[s] \cup {key} |->
                         IF k = key
                         THEN [data |-> Null, inFlight |-> inFlight, error |-> Null]
                         ELSE c[s][k]]
                ELSE IF /\ previous[s] # Some(key)
                        /\ IsNull(c[s][key].inFlight)
                        /\ (IsNull(c[s][key].data) \/ s \in AlwaysStale)
                THEN [c[s] EXCEPT ![key].inFlight = inFlight]
                ELSE c[s]
        c1 == [cache EXCEPT !["primary"] = started(cache, "primary")]
    IN  [s \in ViewSeries |-> IF s = "primary" THEN c1[s] ELSE started(c1, s)]

\* The Apply handler without its test of the order of the bounds.
applyCustomRange_NoOrderCheck(start, end, applied) ==
    IF IsNull(start) \/ IsNull(end) THEN applied
    ELSE Some([startMs |-> Get(start), endMs |-> Get(end)])

\* onClick of Apply (lines 2703-2710)
applyCustomRange(start, end, applied) ==
    IF IsNull(start) \/ IsNull(end) \/ Get(start) >= Get(end) THEN applied
    ELSE Some([startMs |-> Get(start), endMs |-> Get(end)])

\* The main panel with the test for data before the test for an error.
mainPanel_DataBeforeError(entry) ==
    LET e == Get(entry)
        candles == IF IsNull(e.data) THEN <<>> ELSE Get(e.data).candles
    IN  IF IsNull(e.data) /\ IsNull(e.error) THEN "loading"
        ELSE IF Len(candles) > 0 THEN "chart"
        ELSE IF ~IsNull(e.error) THEN "error"
        ELSE "empty"

\* query.isLoading ? placeholder : query.isError ? error text : !hasData ?
\* empty-state message : chart (lines 2560-2625); the primary query is
\* enabled, so its entry exists.
mainPanel(entry) ==
    LET e == Get(entry)
        candles == IF IsNull(e.data) THEN <<>> ELSE Get(e.data).candles
        isLoading == IsNull(e.data) /\ IsNull(e.error)
        isError == ~IsNull(e.error)
        hasData == Len(candles) > 0
    IN  IF isLoading THEN "loading"
        ELSE IF isError THEN "error"
        ELSE IF ~hasData THEN "empty"
        ELSE "chart"

\* (query.error as Error)?.message || 'Something went wrong ...' (line 2582)
errorText(entry) ==
    IF Get(Get(entry).error) = "" THEN "Something went wrong while loading chart data."
    ELSE Get(Get(entry).error)

InitView ==
    /\ NoCall
    /\ ChartMounted
    /\ NoFetch
    /\ NoQueries
    /\ props \in [marketId : {"MKT"}, projectionEventTicker : {Null, Some("EVT")}]
    /\ selectedTimeframe = "7D"
    /\ customRangeApplied = Null
    /\ isDragging = FALSE
    /\ dragSelection = Null
    /\ queryCache = observe([s \in ViewSeries |-> <<>>], show, props, "7D", Null,
                            [s \in ViewSeries |-> Null])

\* What the queries observe in the current state.
ObservedKeys == observedKeys(queryCache, show, props, selectedTimeframe, customRangeApplied)

ViewEvent ==
    /\ steps < MaxViewEvents
    /\ steps' = steps + 1
    /\ UNCHANGED <<query, seriesQueries, customCompareMarkets, customCompareQueries,
                   compareTickerInput, compareInputError, chartData>>
    /\ UNCHANGED <<callVars, fetchVars, queryVars, isDragging, dragSelection>>

\* onChange of an overlay checkbox (lines 2431-2551), and the render after
ToggleShow(series) ==
    /\ ViewEvent
    /\ show' = [show EXCEPT ![series] = ~show[series]]
    /\ UNCHANGED <<props, selectedTimeframe, customRangeApplied>>
    /\ queryCache' = observe(queryCache, show', props, selectedTimeframe, customRangeApplied,
                             ObservedKeys)

\* onClick of a timeframe button (line 2653), the render after it, and the
\* effect of lines 1198-1203, which applies a default range when CUSTOM is
\* selected without one, with the render after that.
setTimeframe(tf, now) ==
    /\ ViewEvent
    /\ selectedTimeframe' = tf
    /\ LET rendered == observe(queryCache, show, props, tf, customRangeApplied, ObservedKeys)
       IN  IF tf = "CUSTOM" /\ IsNull(customRangeApplied)
           THEN /\ customRangeApplied' =
                      Some([startMs |-> now - 14 * 24 * 60 * 60 * Second, endMs |-> now])
                /\ queryCache' =
                      observe(rendered, show, props, tf, customRangeApplied',
                              observedKeys(rendered, show, props, tf, customRangeApplied))
           ELSE /\ UNCHANGED customRangeApplied
                /\ queryCache' = rendered
    /\ UNCHANGED <<props, show>>

\* onClick of Apply, shown under CUSTOM; the drafts parse to start and end.
ApplyCustomRange(start, end) ==
    /\ ViewEvent
    /\ selectedTimeframe = "CUSTOM"
    /\ customRangeApplied' = applyCustomRange(start, end, customRangeApplied)
    /\ UNCHANGED <<props, show, selectedTimeframe>>
    /\ queryCache' = observe(queryCache, show, props, selectedTimeframe, customRangeApplied',
                             ObservedKeys)

\* The parent passes another marketId.
ChangeMarketId(id) ==
    /\ ViewEvent
    /\ id # props.marketId
    /\ props' = [props EXCEPT !.marketId = id]
    /\ UNCHANGED <<show, selectedTimeframe, customRangeApplied>>
    /\ queryCache' = observe(queryCache, show, props', selectedTimeframe, customRangeApplied,
                             ObservedKeys)

\* A fetch resolves: its result, tagged with the values the fetch ran with,
\* goes to the entry it was started under; the render after it may change
\* the projection's key.
FetchResolves(s, key, candles) ==
    /\ ViewEvent
    /\ key \in DOMAIN queryCache[s]
    /\ ~IsNull(queryCache[s][key].inFlight)
    /\ s # "primary" => candles = <<>>
    /\ LET settled == [queryCache EXCEPT ![s][key] =
                          [data |-> Some([inputs |-> Get(queryCache[s][key].inFlight),
                                          candles |-> candles]),
                           inFlight |-> Null,
                           error |-> Null]]
       IN  queryCache' = observe(settled, show, props, selectedTimeframe, customRangeApplied,
                                 ObservedKeys)
    /\ UNCHANGED <<props, show, selectedTimeframe, customRangeApplied>>

\* A fetch and its retry have failed: the entry keeps its data and gets the
\* error.
FetchRejects(s, key, message) ==
    /\ ViewEvent
    /\ key \in DOMAIN queryCache[s]
    /\ ~IsNull(queryCache[s][key].inFlight)
    /\ s # "primary" => message = "Request failed"
    /\ queryCache' = [queryCache EXCEPT ![s][key] =
                         [@ EXCEPT !.inFlight = Null, !.error = Some(message)]]
    /\ UNCHANGED <<props, show, selectedTimeframe, customRangeApplied>>

\* An enabled query whose entry has no fetch in flight fetches again: on
\* its refetchInterval (line 941), on window focus, or being stale when it
\* is shown again.
RefetchStarts(s) ==
    /\ ViewEvent
    /\ isEnabled(s, show)
    /\ LET key == queryKeyOf(s, props, selectedTimeframe, customRangeApplied, queryCache)
       IN  /\ IsNull(queryCache[s][key].inFlight)
           /\ queryCache' = [queryCache EXCEPT ![s][key].inFlight =
                                Some(fetchInputsOf(s, props, selectedTimeframe,
                                                   customRangeApplied, queryCache))]
    /\ UNCHANGED <<props, show, selectedTimeframe, customRangeApplied>>

NextView ==
    \/ \E series \in ChartSeries : ToggleShow(series)
    \/ \E tf \in ViewTimeframes, now \in ViewClock : setTimeframe(tf, now)
    \/ \E start \in DraftInstants, end \in DraftInstants : ApplyCustomRange(start, end)
    \/ \E id \in MarketIds : ChangeMarketId(id)
    \/ \E s \in ViewSeries : \E key \in DOMAIN queryCache[s] :
          \E candles \in PrimaryTimestampInputs : FetchResolves(s, key, candles)
    \/ \E s \in ViewSeries : \E key \in DOMAIN queryCache[s] :
          \E message \in {"", "Request failed"} : FetchRejects(s, key, message)
    \/ \E s \in ViewSeries : RefetchStarts(s)

SpecView == InitView /\ [][NextView]_vars

---------------------------------------------------------------------------
(* Properties of the view (checked under SpecView).                        *)

\* What a series' fetch would be given now, and the entry the series shows.
CurrentInputs(s) ==
    fetchInputsOf(s, props, selectedTimeframe, customRangeApplied, queryCache)

ShownEntry(s) ==
    EntryOf(queryCache, s,
            queryKeyOf(s, props, selectedTimeframe, customRangeApplied, queryCache))

\* C21: whenever the market id, the timeframe or the applied custom range
\* changes, every enabled series whose fetch takes a changed value is, after
\* the change, fetching with the new values or showing data fetched with
\* them.
C21_ChangedInputsRestartFetch ==
    [][(\/ props'.marketId # props.marketId
        \/ selectedTimeframe' # selectedTimeframe
        \/ customRangeApplied' # customRangeApplied) =>
          \A s \in ViewSeries :
             LET inputs == fetchInputsOf(s, props', selectedTimeframe', customRangeApplied',
                                         queryCache')
                 entry == EntryOf(queryCache', s,
                                  queryKeyOf(s, props', selectedTimeframe',
                                             customRangeApplied', queryCache'))
             IN  (isEnabled(s, show') /\ inputs # CurrentInputs(s)) =>
                    /\ ~IsNull(entry)
                    /\ \/ Get(entry).inFlight = Some(inputs)
                       \/ /\ ~IsNull(Get(entry).data)
                          /\ Get(Get(entry).data).inputs = inputs]_vars

\* C22: the data an enabled series shows was fetched with the values the
\* series' fetch takes now: market id, timeframe, custom range and, for the
\* seat projection, the primary series' timestamps.
C22_ShownDataMatchesInputs ==
    \A s \in ViewSeries :
        (isEnabled(s, show) /\ ~IsNull(ShownEntry(s)) /\ ~IsNull(Get(ShownEntry(s)).data)) =>
            Get(Get(ShownEntry(s)).data).inputs = CurrentInputs(s)

\* The primary query shows the result of a fetch that succeeded with an
\* empty candle list.
PrimaryEmpty(entry) ==
    /\ ~IsNull(entry)
    /\ IsNull(Get(entry).error)
    /\ ~IsNull(Get(entry).data)
    /\ Get(Get(entry).data).candles = <<>>

\* C23: when the primary fetch has succeeded with an empty candle list the
\* main panel shows the empty-state message, and in a render with the
\* primary series empty no fetch of the seat projection is started.
C23_EmptyPrimaryStartsNoProjection ==
    [][LET entry == EntryOf(queryCache', "primary",
                            primaryKey(props', selectedTimeframe', customRangeApplied'))
       IN  PrimaryEmpty(entry) =>
              /\ mainPanel(entry) = "empty"
              /\ ~IsNull(props'.projectionEventTicker) =>
                    \A key \in DOMAIN queryCache'["projection"] :
                        ~IsNull(queryCache'["projection"][key].inFlight) =>
                            /\ key \in DOMAIN queryCache["projection"]
                            /\ ~IsNull(queryCache["projection"][key].inFlight)]_vars

\* C24: the main panel shows one of four views, by the state of the
\* primary query: the loading placeholder exactly while the query has
\* neither data nor an error and its fetch is in flight; the error text,
\* which is the error's message when it has one, exactly when the last
\* fetch failed; the empty-state message exactly when the query holds a
\* result without candles and no error; and the chart exactly when it
\* holds at least one candle and no error.
C24_PanelFollowsPrimaryQuery ==
    LET entry == ShownEntry("primary")
        e == Get(entry)
        candles == IF IsNull(e.data) THEN <<>> ELSE Get(e.data).candles
        panel == mainPanel(entry)
    IN  /\ ~IsNull(entry)
        /\ panel \in {"loading", "error", "empty", "chart"}
        /\ panel = "loading" <=> (IsNull(e.data) /\ IsNull(e.error) /\ ~IsNull(e.inFlight))
        /\ panel = "error" <=> ~IsNull(e.error)
        /\ (~IsNull(e.error) /\ Get(e.error) # "") => errorText(entry) = Get(e.error)
        /\ panel = "empty" <=> (IsNull(e.error) /\ ~IsNull(e.data) /\ candles = <<>>)
        /\ panel = "chart" <=> (IsNull(e.error) /\ ~IsNull(e.data) /\ Len(candles) >= 1)

\* A refetch failed after a fetch that brought a candle: the panel shows
\* the error's message.
C24_Witness ==
    LET entry == ShownEntry("primary")
    IN  /\ ~IsNull(Get(entry).data)
        /\ Get(Get(entry).data).candles = <<1>>
        /\ Get(entry).error = Some("Request failed")
        /\ mainPanel(entry) = "error"
        /\ errorText(entry) = "Request failed"

\* C26: the applied custom range is null or has startMs < endMs, an Apply
\* whose drafts do not parse or have start >= end leaves it as it was, and
\* the windows getTimeWindow returns for 1D, 7D, 30D and ALL have
\* startMs <= endMs.
C26_WindowsAreOrdered ==
    /\ [](/\ IsNull(customRangeApplied)
             \/ Get(customRangeApplied).startMs < Get(customRangeApplied).endMs
          /\ \A tf \in {"1D", "7D", "30D", "ALL"}, now \in NowInputs :
                LET window == getTimeWindow(tf, customRangeApplied, now)
                IN  window.startMs <= window.endMs)
    /\ [][\A start \in DraftInstants, end \in DraftInstants :
             (/\ ApplyCustomRange(start, end)
              /\ (IsNull(start) \/ IsNull(end) \/ Get(start) >= Get(end))) =>
                 customRangeApplied' = customRangeApplied]_vars

\* The user applied the range from 0 to one day and went back to 7D.
C26_Witness ==
    /\ customRangeApplied = Some([startMs |-> 0, endMs |-> Day])
    /\ selectedTimeframe = "7D"

---------------------------------------------------------------------------
(* The drag selection (lines 1193-1196, 1231-1299, 2614-2621).  After a    *)
(* render whose candle count or timeframe differs from the previous one    *)
(* the component is at "effects" until the reset effect has run; no user   *)
(* event is handled in between.                                            *)

MaxDragCandles == 3     \* longest candle list under the drag
MaxDragEvents == 4      \* events (user actions, responses) of the drag

\* The candle list of a given length, with timestamps 1, 2, ...
DragCandles(count) == [i \in 1..count |-> ChartCandle(i)]

\* The data of the primary query holding that list.
DragData(count) == [candles |-> DragCandles(count), marketId |-> "MKT"]

\* Lengths of the lists the primary query can hold, Null for no data.
DragDataInputs(maxCandles) == {Null} \cup {Some(count) : count \in 0..maxCandles}

\* The timestamp under the pointer: a number, or none (Null) when the chart
\* or its x scale is missing or the value is not finite.
PointerInputs(maxCandles) == {Null} \cup {Some(ts) : ts \in 0..(maxCandles + 1)}

\* getIndexFromClientX (lines 1231-1245), from the timestamp under the pointer
getIndexFromClientX(pointer, candles) ==
    IF Len(candles) = 0 \/ IsNull(pointer) THEN Null
    ELSE Some(nearestIndexByTimestamp(Timestamps(candles), Get(pointer)))

\* The range without the test against the candle count.
selectionRange_NoBoundsCheck(selection, length) ==
    IF IsNull(selection) THEN Null
    ELSE Some([end |-> Max(Get(selection).startIndex, Get(selection).endIndex),
               start |-> Min(Get(selection).startIndex, Get(selection).endIndex)])

\* selectionRange (lines 1266-1272)
selectionRange(selection, length) ==
    IF IsNull(selection) THEN Null
    ELSE LET start == Min(Get(selection).startIndex, Get(selection).endIndex)
             end == Max(Get(selection).startIndex, Get(selection).endIndex)
         IN  IF start < 0 \/ end >= length THEN Null
             ELSE Some([end |-> end, start |-> start])

\* selectionSummary (lines 1274-1299): a candle read outside the list is
\* undefined and gives null.
selectionSummary(range, candles) ==
    IF IsNull(range) THEN Null
    ELSE IF \/ Get(range).start + 1 \notin DOMAIN candles
            \/ Get(range).end + 1 \notin DOMAIN candles
    THEN Null
    ELSE Some([candleCount |-> Get(range).end - Get(range).start + 1,
               endTs |-> At(candles, Get(range).end).timestamp,
               startTs |-> At(candles, Get(range).start).timestamp])

\* The chart at rest: nothing dragged, the primary query with or without
\* data, the reset effect of the last render done.
InitDrag ==
    /\ NoCall
    /\ seriesQueries = [s \in ChartSeries |-> Null]
    /\ show = [s \in ChartSeries |-> FALSE]
    /\ customCompareMarkets = <<>>
    /\ customCompareQueries = <<>>
    /\ compareTickerInput = <<>>
    /\ compareInputError = Null
    /\ chartData = <<>>
    /\ steps = 0
    /\ NoFetch
    /\ NoQueries
    /\ ViewMounted
    /\ query \in {Null} \cup {Some(DragData(count)) : count \in 0..MaxDragCandles}

DragEvent ==
    /\ steps < MaxDragEvents
    /\ steps' = steps + 1
    /\ UNCHANGED <<seriesQueries, show, customCompareMarkets, customCompareQueries,
                   compareTickerInput, compareInputError, chartData>>
    /\ UNCHANGED <<input, output, fetchVars, queryVars, props, customRangeApplied, queryCache>>

\* onMouseDown / onTouchStart (lines 1247-1252)
startDrag(pointer) ==
    /\ DragEvent
    /\ pc = "ready"
    /\ LET index == getIndexFromClientX(pointer, CandlesOf(query))
       IN  IF IsNull(index) THEN UNCHANGED <<isDragging, dragSelection>>
           ELSE /\ isDragging' = TRUE
                /\ dragSelection' = Some([endIndex |-> Get(index), startIndex |-> Get(index)])
    /\ UNCHANGED <<pc, query, selectedTimeframe>>

\* onMouseMove / onTouchMove (lines 1254-1259)
moveDrag(pointer) ==
    /\ DragEvent
    /\ pc = "ready"
    /\ LET index == getIndexFromClientX(pointer, CandlesOf(query))
       IN  IF ~isDragging \/ IsNull(index) \/ IsNull(dragSelection)
           THEN UNCHANGED dragSelection
           ELSE dragSelection' = Some([Get(dragSelection) EXCEPT !.endIndex = Get(index)])
    /\ UNCHANGED <<pc, query, selectedTimeframe, isDragging>>

\* onMouseUp / onMouseLeave / onTouchEnd (lines 1261-1264)
endDrag ==
    /\ DragEvent
    /\ pc = "ready"
    /\ isDragging' = FALSE
    /\ dragSelection' = Null
    /\ UNCHANGED <<pc, query, selectedTimeframe>>

\* onDoubleClick (line 2621)
DoubleClick ==
    /\ DragEvent
    /\ pc = "ready"
    /\ dragSelection' = Null
    /\ UNCHANGED <<pc, query, selectedTimeframe, isDragging>>

\* A timeframe button: the primary query gets another key, under which it
\* has no data or data cached earlier; the render shows that, and the reset
\* effect is due.
ChangeTimeframe(tf, cached) ==
    /\ DragEvent
    /\ pc = "ready"
    /\ tf # selectedTimeframe
    /\ selectedTimeframe' = tf
    /\ query' = IF IsNull(cached) THEN Null ELSE Some(DragData(Get(cached)))
    /\ pc' = "effects"
    /\ UNCHANGED <<isDragging, dragSelection>>

\* The primary query resolves with another candle list; the render shows
\* it, and the reset effect is due when the number of candles changed.
ReplaceCandles(count) ==
    /\ DragEvent
    /\ pc = "ready"
    /\ query' = Some(DragData(count))
    /\ pc' = IF count # Len(CandlesOf(query)) THEN "effects" ELSE "ready"
    /\ UNCHANGED <<selectedTimeframe, isDragging, dragSelection>>

\* The effect of lines 1193-1196
ResetDragEffect ==
    /\ DragEvent
    /\ pc = "effects"
    /\ pc' = "ready"
    /\ isDragging' = FALSE
    /\ dragSelection' = Null
    /\ UNCHANGED <<query, selectedTimeframe>>

NextDrag ==
    \/ endDrag
    \/ DoubleClick
    \/ \E pointer \in PointerInputs(MaxDragCandles) : startDrag(pointer)
    \/ \E pointer \in PointerInputs(MaxDragCandles) : moveDrag(pointer)
    \/ \E tf \in ViewTimeframes :
          \E cached \in DragDataInputs(MaxDragCandles) : ChangeTimeframe(tf, cached)
    \/ \E count \in 0..MaxDragCandles : ReplaceCandles(count)
    \/ ResetDragEffect

SpecDrag == InitDrag /\ [][NextDrag]_vars

\* C30: in every render, the one between a change of the candle list and
\* the reset effect included, the selection range is null or satisfies
\* 0 <= start <= end <= candles.length - 1, and the selection summary of a
\* non-null range is made of two candles of the list.
C30_SelectionWithinCandles ==
    LET candles == CandlesOf(query)
        range == selectionRange(dragSelection, Len(candles))
    IN  \/ IsNull(range)
        \/ /\ 0 <= Get(range).start
           /\ Get(range).start <= Get(range).end
           /\ Get(range).end <= Len(candles) - 1
           /\ ~IsNull(selectionSummary(range, candles))

\* The list shrank to one candle under a drag over candles 0 to 2, the
\* reset effect has not run yet, and the render shows no selection.
C30_Witness ==
    /\ pc = "effects"
    /\ isDragging
    /\ dragSelection = Some([endIndex |-> 2, startIndex |-> 0])
    /\ Len(CandlesOf(query)) = 1
    /\ selectionRange(dragSelection, Len(CandlesOf(query))) = Null

=============================================================================
